---------------------------- MODULE Spec2Model ----------------------------
(***************************************************************************)
(* Model of the FranchiseMap batch queue (batch_processor.py, called the   *)
(* QueueManager in the design document) and of the adaptive batch runner   *)
(* (adaptive_batch_processor.py, the AdaptiveBatchRunner).                 *)
(*                                                                         *)
(* A text file is a record [exists, lines]; a line is a sequence of        *)
(* one-character strings without its terminating newline, so that          *)
(* str.strip, str.startswith and str.split are computed character by       *)
(* character as Python computes them.                                      *)
(***************************************************************************)
EXTENDS Integers, Sequences, FiniteSets, TLC

(***************************************************************************)
(* Bounds of the model                                                     *)
(***************************************************************************)
MaxQueueLines == 2       \* lines of a generated queue file
MaxLedgerLines == 3      \* lines the ledger file may grow to
MaxBatchArg == 2         \* largest batch_size passed to get_next_batch
MaxBatchSize == 3        \* largest small initial batch size of a run
MaxMinSize == 2          \* largest small floor (min_size) of a run
MaxAttempts == 5         \* largest max_attempts of a run
MaxCount == 1            \* largest location count of a manifest entry

TickerNames == <<"A", "B", "C", "D", "E", "F", "G", "H">>
Tickers == {<<"A">>, <<"B">>}

(***************************************************************************)
(* Python str operations on sequences of characters                        *)
(***************************************************************************)
Min(a, b) == IF a <= b THEN a ELSE b
Max(a, b) == IF a >= b THEN a ELSE b

IsSpace(ch) == ch = " "

RECURSIVE lstrip(_)
lstrip(s) ==
    IF s = <<>> THEN <<>>
    ELSE IF IsSpace(Head(s)) THEN lstrip(Tail(s)) ELSE s

RECURSIVE rstrip(_)
rstrip(s) ==
    IF s = <<>> THEN <<>>
    ELSE IF IsSpace(s[Len(s)]) THEN rstrip(SubSeq(s, 1, Len(s) - 1)) ELSE s

strip(s) == rstrip(lstrip(s))

startswith(s, ch) == s # <<>> /\ Head(s) = ch

\* str.split(sep) for a one-character separator
RECURSIVE split(_, _)
split(s, sep) ==
    IF \A i \in 1..Len(s) : s[i] # sep THEN <<s>>
    ELSE LET i == CHOOSE k \in 1..Len(s) :
                      s[k] = sep /\ \A j \in 1..(k - 1) : s[j] # sep
         IN  <<SubSeq(s, 1, i - 1)>> \o split(SubSeq(s, i + 1, Len(s)), sep)

\* sep.join(parts)
RECURSIVE join(_, _)
join(parts, sep) ==
    IF parts = <<>> THEN <<>>
    ELSE IF Len(parts) = 1 THEN parts[1]
    ELSE parts[1] \o <<sep>> \o join(Tail(parts), sep)

\* str(n) for n >= 0: decimal digits
Digit(d) == <<"0", "1", "2", "3", "4", "5", "6", "7", "8", "9">>[d + 1]
RECURSIVE str(_)
str(n) == IF n < 10 THEN <<Digit(n)>> ELSE str(n \div 10) \o <<Digit(n % 10)>>

\* seq[:n] for n >= 0
Take(seq, n) == SubSeq(seq, 1, Min(n, Len(seq)))

(***************************************************************************)
(* batch_processor.py                                                      *)
(***************************************************************************)
NoFile == [exists |-> FALSE, lines |-> <<>>]
FileOf(ls) == [exists |-> TRUE, lines |-> ls]

\* Mutant of QueueLineBrands: lines starting with '#' are not skipped
QueueLineBrandsKeepComments(rawline) ==
    LET line == strip(rawline)
        parts == split(line, "|")
    IN  IF line = <<>> THEN <<>>
        ELSE IF Len(parts) >= 3
             THEN <<[ticker |-> strip(parts[1]),
                     name |-> strip(parts[2]),
                     category |-> strip(parts[3])]>>
             ELSE <<>>

\* One iteration of the loop of parse_queue_file over a line: the brands it
\* appends (none or one).
QueueLineBrands(rawline) ==
    LET line == strip(rawline)
        parts == split(line, "|")
    IN  IF line = <<>> \/ startswith(line, "#") THEN <<>>
        ELSE IF Len(parts) >= 3
             THEN <<[ticker |-> strip(parts[1]),
                     name |-> strip(parts[2]),
                     category |-> strip(parts[3])]>>
             ELSE <<>>

RECURSIVE QueueLinesBrands(_)
QueueLinesBrands(ls) ==
    IF ls = <<>> THEN <<>>
    ELSE QueueLineBrands(Head(ls)) \o QueueLinesBrands(Tail(ls))

\* parse_queue_file() -> brands (total_queued is Len of it)
parse_queue_file(qf) ==
    IF ~qf.exists THEN <<>> ELSE QueueLinesBrands(qf.lines)

ProcessedLineTickers(rawline) ==
    LET line == strip(rawline)
        parts == split(line, "|")
    IN  IF line = <<>> \/ startswith(line, "#") THEN <<>>
        ELSE IF Len(parts) >= 1 THEN <<strip(parts[1])>> ELSE <<>>

RECURSIVE ProcessedLinesTickers(_)
ProcessedLinesTickers(ls) ==
    IF ls = <<>> THEN <<>>
    ELSE ProcessedLineTickers(Head(ls)) \o ProcessedLinesTickers(Tail(ls))

\* parse_processed_file() -> processed tickers (the count is Len of it)
parse_processed_file(lf) ==
    IF ~lf.exists THEN <<>> ELSE ProcessedLinesTickers(lf.lines)

SeqRange(s) == {s[i] : i \in 1..Len(s)}

RECURSIVE FilterRemaining(_, _)
FilterRemaining(brands, processed_set) ==
    IF brands = <<>> THEN <<>>
    ELSE (IF Head(brands).ticker \notin processed_set
          THEN <<Head(brands)>> ELSE <<>>)
         \o FilterRemaining(Tail(brands), processed_set)

\* remaining = [b for b in queued_brands if b['ticker'] not in processed_set]
Remaining(qf, lf) ==
    FilterRemaining(parse_queue_file(qf), SeqRange(parse_processed_file(lf)))

\* get_next_batch(batch_size) on the files qf, lf
get_next_batch(qf, lf, batch_size) ==
    LET remaining == Remaining(qf, lf)
    IN  [batch |-> Take(remaining, batch_size),
         remaining_count |-> Len(remaining)]

\* datetime.utcnow().isoformat() + "Z": the clock is not modelled, every
\* timestamp is the same token
Timestamp == <<"t", "Z">>

\* next((b for b in queued_brands if b['ticker'] == ticker), None), as a
\* sequence holding the first match or nothing
RECURSIVE FirstBrand(_, _)
FirstBrand(brands, ticker) ==
    IF brands = <<>> THEN <<>>
    ELSE IF Head(brands).ticker = ticker THEN <<Head(brands)>>
    ELSE FirstBrand(Tail(brands), ticker)

\* locations_count.get(ticker, 0)
CountOf(locations_count, ticker) ==
    IF ticker \in DOMAIN locations_count THEN locations_count[ticker] ELSE 0

\* Mutant of LedgerLinesFor: a line is written for every queue line that
\* carries the ticker, not for the first one only
RECURSIVE LedgerLinesForEveryMatch(_, _, _)
LedgerLinesForEveryMatch(batch_tickers, locations_count, qf) ==
    IF batch_tickers = <<>> THEN <<>>
    ELSE LET ticker == Head(batch_tickers)
             matches == SelectSeq(parse_queue_file(qf),
                                  LAMBDA b : b.ticker = ticker)
         IN  [i \in 1..Len(matches) |->
                join(<<ticker, matches[i].name, matches[i].category,
                       Timestamp, str(CountOf(locations_count, ticker))>>, "|")]
             \o LedgerLinesForEveryMatch(Tail(batch_tickers), locations_count, qf)

\* The lines mark_batch_complete writes for the tickers of a batch
RECURSIVE LedgerLinesFor(_, _, _)
LedgerLinesFor(batch_tickers, locations_count, qf) ==
    IF batch_tickers = <<>> THEN <<>>
    ELSE LET ticker == Head(batch_tickers)
             brand_dict == FirstBrand(parse_queue_file(qf), ticker)
         IN  (IF brand_dict # <<>>
              THEN <<join(<<ticker, brand_dict[1].name, brand_dict[1].category,
                            Timestamp, str(CountOf(locations_count, ticker))>>,
                          "|")>>
              ELSE <<>>)
             \o LedgerLinesFor(Tail(batch_tickers), locations_count, qf)

\* Outcomes of the file I/O of mark_batch_complete: it completes, open()
\* raises, or an exception is raised in the loop after `done` tickers.
IoOutcomes(batch_tickers) ==
    {[kind |-> "ok", done |-> Len(batch_tickers)],
     [kind |-> "open_fails", done |-> 0]}
    \cup {[kind |-> "write_fails", done |-> k] : k \in 0..(Len(batch_tickers) - 1)}

\* Mutant of mark_batch_complete: a ticker that has a ledger line is skipped
mark_batch_complete_skips_marked(batch_tickers, locations_count, qf, lf, io) ==
    IF batch_tickers = <<>> THEN [ledger |-> lf, ret |-> FALSE]
    ELSE IF io.kind = "open_fails" THEN [ledger |-> lf, ret |-> FALSE]
    ELSE [ledger |-> FileOf(lf.lines \o
                            LedgerLinesFor(
                                SelectSeq(Take(batch_tickers, io.done),
                                          LAMBDA t : t \notin SeqRange(parse_processed_file(lf))),
                                locations_count, qf)),
          ret |-> io.kind = "ok"]

\* Mutant of mark_batch_complete: True is returned although the write failed
mark_batch_complete_reports_true(batch_tickers, locations_count, qf, lf, io) ==
    IF batch_tickers = <<>> THEN [ledger |-> lf, ret |-> FALSE]
    ELSE IF io.kind = "open_fails" THEN [ledger |-> lf, ret |-> TRUE]
    ELSE [ledger |-> FileOf(lf.lines \o
                            LedgerLinesFor(Take(batch_tickers, io.done),
                                           locations_count, qf)),
          ret |-> TRUE]

\* mark_batch_complete(batch_tickers, locations_count) under I/O outcome io:
\* the ledger file afterwards and the value returned
mark_batch_complete(batch_tickers, locations_count, qf, lf, io) ==
    IF batch_tickers = <<>> THEN [ledger |-> lf, ret |-> FALSE]
    ELSE IF io.kind = "open_fails" THEN [ledger |-> lf, ret |-> FALSE]
    ELSE [ledger |-> FileOf(lf.lines \o
                            LedgerLinesFor(Take(batch_tickers, io.done),
                                           locations_count, qf)),
          ret |-> io.kind = "ok"]


(***************************************************************************)
(* The files an operator can have written.  A file is generated from a     *)
(* sequence of line descriptors [kind, ticker]; the descriptors of the     *)
(* queue file are kept in queueSrc so that what the parser returns can be  *)
(* compared with what the operator wrote.                                  *)
(***************************************************************************)
Name == <<"n">>
Category == <<"c">>
Desc(k, t) == [kind |-> k, ticker |-> t]
FirstTicker == <<TickerNames[1]>>

\* The text of a queue-file line
RenderQueueLine(d) ==
    CASE d.kind = "brand"   -> join(<<d.ticker, Name, Category>>, "|")
      [] d.kind = "padded"  -> <<" ">> \o join(<<d.ticker \o <<" ">>,
                                                <<" ">> \o Name \o <<" ">>,
                                                <<" ">> \o Category>>, "|")
                                \o <<" ">>
      [] d.kind = "comment" -> <<"#", " ">> \o join(<<d.ticker, Name, Category>>, "|")
      [] d.kind = "blank"   -> <<" ">>
      [] d.kind = "short"   -> join(<<d.ticker, Name>>, "|")

\* The text of a ledger-file line
RenderLedgerLine(d) ==
    CASE d.kind = "entry"   -> join(<<d.ticker, Name, Category, Timestamp, str(0)>>, "|")
      [] d.kind = "padded"  -> <<" ">> \o join(<<d.ticker \o <<" ">>, Name, Category,
                                                Timestamp, str(0)>>, "|")
      [] d.kind = "comment" -> <<"#", " ">> \o join(<<d.ticker, Name, Category,
                                                     Timestamp, str(0)>>, "|")
      [] d.kind = "blank"   -> <<" ">>
      [] d.kind = "bare"    -> d.ticker

RenderQueue(ds) == FileOf([i \in 1..Len(ds) |-> RenderQueueLine(ds[i])])
RenderLedger(ds) == FileOf([i \in 1..Len(ds) |-> RenderLedgerLine(ds[i])])

QueueDescs ==
    {Desc("brand", t) : t \in Tickers}
    \cup {Desc(k, FirstTicker) : k \in {"comment", "blank"}}
LedgerDescs ==
    {Desc("entry", t) : t \in Tickers}
    \cup {Desc(k, FirstTicker) : k \in {"padded", "comment", "blank", "bare"}}

SeqsUpTo(S, n) == UNION {[1..k -> S] : k \in 0..n}

\* The queue and the ledger of the design document's concrete scenario:
\* queue A, B, C, D, E with A and C already in the ledger
ScenarioQueueSrc == [i \in 1..5 |-> Desc("brand", <<TickerNames[i]>>)]
ScenarioLedgerSrc == <<Desc("entry", <<"A">>), Desc("entry", <<"C">>)>>

\* A hand-edited queue: a commented-out brand, a line with blanks around its
\* fields, a line that lacks its category, a blank line and a brand
DecoratedQueueSrc ==
    <<Desc("comment", <<"B">>), Desc("padded", <<"A">>), Desc("short", <<"B">>),
      Desc("blank", <<"A">>), Desc("brand", <<"B">>)>>

QueueSrcs ==
    SeqsUpTo(QueueDescs, MaxQueueLines) \cup {ScenarioQueueSrc, DecoratedQueueSrc}
\* A ledger left by earlier runs or edited by hand: nothing, one line, or the
\* scenario's ledger
LedgerSrcs == SeqsUpTo(LedgerDescs, 1) \cup {ScenarioLedgerSrc}

VARIABLES
    queueFile,      \* brands_queue.txt
    ledgerFile,     \* processed_brands.txt
    queueSrc,       \* the descriptors queueFile was generated from
    ledgerSrc,      \* the descriptors of the lines of ledgerFile
    qm_last,        \* result of the last get_next_batch call since the last mark
    qm_called,      \* tickers mark_batch_complete has been called with
    qm_marked,      \* tickers of the mark_batch_complete calls that returned True
    run,            \* run[r]: the state of runner process r
    stage,          \* the DataIngestionScript object and the artifact it saves
    store,          \* the directory save_json and load_json work on
    bk,             \* the .backups directory backup_file works on
    gen,            \* the generate_locations subprocess and the files it writes
    report,         \* the DataQualityReport object
    audit,          \* the run_data_aggregation quality audit
    bulk,           \* the BulkIngestionScript.fetch call
    streaming       \* the StreamingIngestionScript run

qmvars == <<qm_last, qm_called, qm_marked>>
filevars == <<queueFile, ledgerFile, queueSrc, ledgerSrc>>
libvars == <<bk, gen, report, audit, bulk, streaming>>
ingvars == <<stage, store, libvars>>
vars == <<filevars, qmvars, run, ingvars>>

NoResult == [valid |-> FALSE, n |-> 0, batch |-> <<>>, remaining_count |-> 0,
             repeated |-> FALSE]

InitQueue(srcs) ==
    \E exists \in BOOLEAN :
      \E src \in (IF exists THEN srcs ELSE {<<>>}) :
        /\ queueSrc = src
        /\ queueFile = IF exists THEN RenderQueue(src) ELSE NoFile

InitLedger(srcs) ==
    \E exists \in BOOLEAN :
      \E src \in (IF exists THEN srcs ELSE {<<>>}) :
        /\ ledgerSrc = src
        /\ ledgerFile = IF exists THEN RenderLedger(src) ELSE NoFile

\* No ingestion script has been constructed and no store directory is in use
NoStage == [pc |-> "absent"]
NoStore == [pc |-> "absent"]
Unused == [pc |-> "absent"]

\* None of the library components is in use
InitNoLib ==
    /\ bk = Unused /\ gen = Unused /\ report = Unused
    /\ audit = Unused /\ bulk = Unused /\ streaming = Unused

InitNoCalls ==
    /\ qm_last = NoResult
    /\ qm_called = {}
    /\ qm_marked = {}
    /\ stage = NoStage
    /\ store = NoStore
    /\ InitNoLib

(***************************************************************************)
(* The QueueManager called directly (batch_processor.py as a library)      *)
(***************************************************************************)
InitQM ==
    /\ InitQueue(QueueSrcs)
    /\ InitLedger(LedgerSrcs)
    /\ InitNoCalls
    /\ run = <<>>

\* The descriptors of the ledger lines a mark_batch_complete call leaves: one
\* entry for each of the first `done` tickers that the operator queued
QueuedTickers == {queueSrc[i].ticker : i \in {j \in 1..Len(queueSrc) :
                                                queueSrc[j].kind \in {"brand", "padded"}}}
WrittenSrc(tickers, io) ==
    IF io.kind = "open_fails" THEN <<>>
    ELSE LET done == SubSeq(tickers, 1, io.done)
             kept == SelectSeq(done, LAMBDA t : t \in QueuedTickers)
         IN  [i \in 1..Len(kept) |-> Desc("entry", kept[i])]

\* Mutant of CallGetNextBatch: the read claims the batch by writing its
\* tickers to the ledger
CallGetNextBatchClaiming ==
    \E n \in 0..MaxBatchArg :
      LET r == get_next_batch(queueFile, ledgerFile, n)
          tickers == [i \in 1..Len(r.batch) |-> r.batch[i].ticker]
      IN  /\ qm_last' = [valid |-> TRUE, n |-> n, batch |-> r.batch,
                         remaining_count |-> r.remaining_count,
                         repeated |-> qm_last.valid /\ qm_last.n = n]
          /\ ledgerFile' = FileOf(ledgerFile.lines \o tickers)
          /\ UNCHANGED <<queueFile, queueSrc, ledgerSrc, qm_called, qm_marked, run, ingvars>>

\* A caller evaluates get_next_batch(n): a read of both files
CallGetNextBatch ==
    \E n \in 0..MaxBatchArg :
      LET r == get_next_batch(queueFile, ledgerFile, n)
      IN  /\ qm_last' = [valid |-> TRUE, n |-> n, batch |-> r.batch,
                         remaining_count |-> r.remaining_count,
                         repeated |-> qm_last.valid /\ qm_last.n = n]
          /\ UNCHANGED <<filevars, qm_called, qm_marked, run, ingvars>>

\* The ticker lists the callers pass, and the count maps read from the manifest
TickerLists == SeqsUpTo(Tickers, 2)
CountMaps(S) == {[t \in D |-> MaxCount] : D \in {{}, S}}

\* A caller evaluates mark_batch_complete(tickers, counts)
CallMarkBatchComplete ==
    \E tickers \in TickerLists :
      \E io \in IoOutcomes(tickers) :
        LET counts == [t \in SeqRange(tickers) |-> MaxCount]
            r == mark_batch_complete(tickers, counts, queueFile, ledgerFile, io)
        IN  /\ Len(ledgerFile.lines) + Len(tickers) <= MaxLedgerLines
            /\ ledgerFile' = r.ledger
            /\ ledgerSrc' = ledgerSrc \o WrittenSrc(tickers, io)
            /\ qm_last' = NoResult
            /\ qm_called' = qm_called \cup SeqRange(tickers)
            /\ qm_marked' = IF r.ret THEN qm_marked \cup SeqRange(tickers)
                            ELSE qm_marked
            /\ UNCHANGED <<queueFile, queueSrc, run, ingvars>>

NextQM == CallGetNextBatch \/ CallMarkBatchComplete

SpecQM == InitQM /\ [][NextQM]_vars

(***************************************************************************)
(* adaptive_batch_processor.py                                             *)
(***************************************************************************)
INITIAL_BATCH_SIZE_LOW == 50
INITIAL_BATCH_SIZE_HIGH == 100
MIN_BATCH_SIZE == 5
MAX_RETRY_ATTEMPTS == 3

\* Mutant of exit_code: the process always exits 0
exit_code_always_zero(success) == 0

\* sys.exit(0 if success else 1)
exit_code(success) == IF success THEN 0 ELSE 1

\* Mutant of new_size: the batch shrinks by one instead of halving
new_size_decrement(min_size, current_batch_size) ==
    Max(min_size, current_batch_size - 1)

\* new_size = max(min_size, current_batch_size // 2)
new_size(min_size, current_batch_size) == Max(min_size, current_batch_size \div 2)

\* Nothing left behind by an interrupted run
NoCrash == [tickers |-> <<>>, size |-> 0]

\* The runner process r before main() is entered, called with the arguments
\* batch_size, max_attempts and min_size
RunnerStart(batch_size, max_attempts, min_size) ==
    [pc |-> "main",
     batch_size |-> batch_size, max_attempts |-> max_attempts, min_size |-> min_size,
     current_batch_size |-> batch_size, attempt |-> 0,
     batch_tickers |-> <<>>,
     success |-> FALSE, ret_tickers |-> <<>>, counts |-> <<>>,
     exit_code |-> -1,
     inv_ok |-> FALSE,        \* history: generate_locations succeeded for batch_tickers
     meta_ok |-> FALSE,       \* history: build_brand_metadata succeeded after it
     sizes |-> <<>>,          \* history: current_batch_size of each attempt
     invokes |-> 0,           \* history: generate_locations invocations
     failed |-> 0,            \* history: invocations that returned failure
     entered |-> FALSE,       \* history: process_batch_with_retry was called
     no_work |-> FALSE,       \* history: a selection found the remaining queue empty
     message |-> FALSE,       \* "Manual intervention may be required" logged
     marked |-> FALSE,        \* main called mark_batch_complete
     interrupted |-> FALSE,
     selected_size |-> 0,     \* history: the size batch_tickers was selected with
     mark_ret |-> FALSE,      \* history: mark_batch_complete returned True
     written |-> <<>>,        \* history: the tickers this run wrote ledger lines for
     restarted |-> FALSE,     \* history: an earlier run of the job has ended
     crashed |-> NoCrash,     \* history: what the run before left when interrupted
     appended |-> <<>>]       \* history: the tickers earlier runs wrote lines for

Runners == DOMAIN run

Set(r, fields) ==
    /\ run' = [run EXCEPT ![r] = fields @@ run[r]]
    /\ UNCHANGED ingvars

\* main(), lines 214-228: the status check before the retry loop
MainStart(r) ==
    /\ run[r].pc = "main"
    /\ LET remaining == Remaining(queueFile, ledgerFile)
       IN  IF Len(remaining) = 0
           THEN Set(r, [pc |-> "done", no_work |-> TRUE,
                        exit_code |-> exit_code(TRUE)])
           ELSE Set(r, [pc |-> "loop", entered |-> TRUE,
                        current_batch_size |-> run[r].batch_size, attempt |-> 0])
    /\ UNCHANGED <<filevars, qmvars>>

\* Mutants of LoopGuard: the floor, or the attempt limit, is not tested
LoopGuardNoFloor(r) == run[r].attempt < run[r].max_attempts
LoopGuardNoLimit(r) == run[r].current_batch_size >= run[r].min_size

\* while attempt < max_attempts and current_batch_size >= min_size
LoopGuard(r) ==
    run[r].attempt < run[r].max_attempts
    /\ run[r].current_batch_size >= run[r].min_size

\* process_batch_with_retry, lines 125-141: the loop is entered and the batch
\* is selected
SelectBatch(r) ==
    /\ run[r].pc = "loop"
    /\ LoopGuard(r)
    /\ LET got == get_next_batch(queueFile, ledgerFile, run[r].current_batch_size)
           batch_tickers == [i \in 1..Len(got.batch) |-> got.batch[i].ticker]
       IN  IF got.batch = <<>>
           THEN Set(r, [pc |-> "finish", attempt |-> run[r].attempt + 1,
                        no_work |-> got.remaining_count = 0,
                        sizes |-> Append(run[r].sizes, run[r].current_batch_size),
                        success |-> TRUE, ret_tickers |-> <<>>, counts |-> <<>>])
           ELSE Set(r, [pc |-> "invoke", attempt |-> run[r].attempt + 1,
                        batch_tickers |-> batch_tickers,
                        selected_size |-> run[r].current_batch_size,
                        inv_ok |-> FALSE, meta_ok |-> FALSE,
                        sizes |-> Append(run[r].sizes, run[r].current_batch_size)])
    /\ UNCHANGED <<filevars, qmvars>>

\* process_batch_with_retry, lines 125 and 201: the loop condition is false
LoopExit(r) ==
    /\ run[r].pc = "loop"
    /\ ~LoopGuard(r)
    /\ Set(r, [pc |-> "finish", success |-> FALSE, ret_tickers |-> <<>>,
               counts |-> <<>>])
    /\ UNCHANGED <<filevars, qmvars>>

\* run_command: the subprocess exits 0, exits non-zero, or run() raises
\* (TimeoutExpired and any other exception are caught and give failure)
CommandOutcomes == {"exit_zero", "exit_nonzero", "timeout"}
run_command(outcome) == outcome = "exit_zero"

\* process_batch_with_retry, lines 143-152 and 174-184: generate_locations is
\* invoked for the batch
Invoke(r) ==
    /\ run[r].pc = "invoke"
    /\ \E outcome \in CommandOutcomes :
         IF run_command(outcome)
         THEN Set(r, [pc |-> "metadata", invokes |-> run[r].invokes + 1,
                      inv_ok |-> TRUE])
         ELSE Set(r, [pc |-> "retry", invokes |-> run[r].invokes + 1,
                      failed |-> run[r].failed + 1])
    /\ UNCHANGED <<filevars, qmvars>>

\* process_batch_with_retry, lines 154-172: build_brand_metadata is invoked and,
\* when it succeeds, the counts are read from the manifest
BuildMetadata(r) ==
    /\ run[r].pc = "metadata"
    /\ \E outcome \in CommandOutcomes :
         IF run_command(outcome)
         THEN \E counts \in CountMaps(SeqRange(run[r].batch_tickers)) :
                Set(r, [pc |-> "finish", success |-> TRUE, meta_ok |-> TRUE,
                        ret_tickers |-> run[r].batch_tickers, counts |-> counts])
         ELSE Set(r, [pc |-> "retry"])
    /\ UNCHANGED <<filevars, qmvars>>

\* process_batch_with_retry, lines 186-199: retry with a smaller batch
Retry(r) ==
    /\ run[r].pc = "retry"
    /\ IF run[r].attempt < run[r].max_attempts
       THEN LET new == new_size(run[r].min_size, run[r].current_batch_size)
            IN  IF new < run[r].current_batch_size
                THEN Set(r, [pc |-> "loop", current_batch_size |-> new])
                ELSE Set(r, [pc |-> "finish", success |-> FALSE,
                             ret_tickers |-> <<>>, counts |-> <<>>])
       ELSE Set(r, [pc |-> "loop"])
    /\ UNCHANGED <<filevars, qmvars>>

\* The value main() returns after mark_batch_complete returned mark_ret
\* without raising (lines 240-258: the returned value is not looked at)
MainReturnAfterMark(mark_ret) == TRUE

\* Mutant of Finish: the last batch is marked whatever the run returned
FinishMarksUnconditionally(r) ==
    /\ run[r].pc = "finish"
    /\ IF run[r].batch_tickers # <<>>
       THEN \E io \in IoOutcomes(run[r].batch_tickers) :
              LET m == mark_batch_complete(run[r].batch_tickers, run[r].counts,
                                           queueFile, ledgerFile, io)
              IN  /\ ledgerFile' = m.ledger
                  /\ ledgerSrc' = ledgerSrc \o WrittenSrc(run[r].batch_tickers, io)
                  /\ Set(r, [pc |-> "done", marked |-> TRUE, mark_ret |-> m.ret,
                             written |-> Take(run[r].batch_tickers, io.done),
                             exit_code |-> exit_code(MainReturnAfterMark(m.ret))])
       ELSE /\ Set(r, [pc |-> "done", message |-> TRUE,
                       exit_code |-> exit_code(FALSE)])
            /\ UNCHANGED <<ledgerFile, ledgerSrc>>
    /\ UNCHANGED <<queueFile, queueSrc, qmvars>>

\* main(), lines 237-262, and the exit code of lines 266-268
Finish(r) ==
    /\ run[r].pc = "finish"
    /\ IF run[r].success /\ run[r].ret_tickers # <<>>
       THEN \E io \in IoOutcomes(run[r].ret_tickers) :
              LET m == mark_batch_complete(run[r].ret_tickers, run[r].counts,
                                           queueFile, ledgerFile, io)
              IN  /\ ledgerFile' = m.ledger
                  /\ ledgerSrc' = ledgerSrc \o WrittenSrc(run[r].ret_tickers, io)
                  /\ Set(r, [pc |-> "done", marked |-> TRUE, mark_ret |-> m.ret,
                             written |-> Take(run[r].ret_tickers, io.done),
                             exit_code |-> exit_code(MainReturnAfterMark(m.ret))])
       ELSE /\ Set(r, [pc |-> "done", message |-> TRUE,
                       exit_code |-> exit_code(FALSE)])
            /\ UNCHANGED <<ledgerFile, ledgerSrc>>
    /\ UNCHANGED <<queueFile, queueSrc, qmvars>>

\* Mutant of Interrupt: the interrupted run records its selected batch in the
\* ledger on the way out
InterruptMarksBatch(r) ==
    /\ run[r].pc # "done"
    /\ Set(r, [pc |-> "done", interrupted |-> TRUE, exit_code |-> 1])
    /\ ledgerFile' = FileOf(ledgerFile.lines \o run[r].batch_tickers)
    /\ UNCHANGED <<queueFile, queueSrc, ledgerSrc, qmvars>>

\* lines 269-271: KeyboardInterrupt anywhere in main()
Interrupt(r) ==
    /\ run[r].pc # "done"
    /\ Set(r, [pc |-> "done", interrupted |-> TRUE, exit_code |-> 1])
    /\ UNCHANGED <<filevars, qmvars>>

NextRun ==
    \/ \E r \in Runners : MainStart(r)
    \/ \E r \in Runners : SelectBatch(r)
    \/ \E r \in Runners : LoopExit(r)
    \/ \E r \in Runners : Invoke(r)
    \/ \E r \in Runners : BuildMetadata(r)
    \/ \E r \in Runners : Retry(r)
    \/ \E r \in Runners : Finish(r)

NextInterrupt == \E r \in Runners : Interrupt(r)

Next == NextRun \/ NextInterrupt

\* The queue and ledger files of the runner specifications
RunnerQueueSrcs ==
    SeqsUpTo({Desc("brand", t) : t \in Tickers}, MaxQueueLines)
    \cup {<<Desc("comment", FirstTicker), Desc("padded", FirstTicker)>>}
RunnerLedgerSrcs == {<<>>, <<Desc("entry", FirstTicker)>>}

\* One runner, process_batch_with_retry called with any arguments
InitialSizes == (0..MaxBatchSize) \cup {80}
Floors == (0..MaxMinSize) \cup {MIN_BATCH_SIZE}
AttemptLimits == (0..MaxAttempts) \cup {MAX_RETRY_ATTEMPTS}

Init ==
    /\ InitQueue(RunnerQueueSrcs)
    /\ InitLedger(RunnerLedgerSrcs)
    /\ InitNoCalls
    /\ \E b \in InitialSizes, m \in AttemptLimits, f \in Floors :
         run = [r \in {1} |-> RunnerStart(b, m, f)]

Spec == Init /\ [][Next]_vars

\* Two runner processes started by main() on the same queue and ledger files,
\* each with the module's configuration, and neither interrupted
ConcQueueSrcs == SeqsUpTo({Desc("brand", t) : t \in Tickers}, 2)
InitConc ==
    /\ InitQueue(ConcQueueSrcs)
    /\ InitLedger(RunnerLedgerSrcs)
    /\ InitNoCalls
    /\ \E b \in {INITIAL_BATCH_SIZE_LOW, INITIAL_BATCH_SIZE_HIGH} :
         run = [r \in {1, 2} |->
                  RunnerStart(b, MAX_RETRY_ATTEMPTS, MIN_BATCH_SIZE)]

SpecConc == InitConc /\ [][NextRun]_vars

(***************************************************************************)
(* The scheduled job: runs of the runner one after the other on the same   *)
(* files, each a new process (single writer)                               *)
(***************************************************************************)
\* The tickers of the selected batch that run r wrote no ledger line for
Unmarked(r) ==
    SelectSeq(run[r].batch_tickers, LAMBDA t : t \notin SeqRange(run[r].written))

\* lines 143-147 and 269-271: what run r leaves behind when it is interrupted
\* after generate_locations succeeded for its batch
CrashLeft(r) ==
    IF run[r].interrupted /\ run[r].inv_ok /\ Unmarked(r) # <<>>
    THEN [tickers |-> Unmarked(r), size |-> run[r].selected_size]
    ELSE NoCrash

\* batch_processor.py lines 140-149 under lines 269-271 of the runner:
\* KeyboardInterrupt inside the write loop of mark_batch_complete after k
\* lines; `with` closes the file, the lines written so far stay
InterruptMark(r) ==
    /\ run[r].pc = "finish"
    /\ run[r].success /\ run[r].ret_tickers # <<>>
    /\ \E k \in 1..Len(run[r].ret_tickers) :
         /\ ledgerFile' = FileOf(ledgerFile.lines \o
                                 LedgerLinesFor(Take(run[r].ret_tickers, k),
                                                run[r].counts, queueFile))
         /\ ledgerSrc' = ledgerSrc \o
                         WrittenSrc(run[r].ret_tickers,
                                    [kind |-> "write_fails", done |-> k])
         /\ Set(r, [pc |-> "done", interrupted |-> TRUE, marked |-> TRUE,
                    written |-> Take(run[r].ret_tickers, k), exit_code |-> 1])
    /\ UNCHANGED <<queueFile, queueSrc, qmvars>>

\* lines 49 and 265-268: the process of run r has ended and the job is started
\* again; INITIAL_BATCH_SIZE is drawn anew, the other settings are the module's
Restart(r) ==
    /\ run[r].pc = "done"
    /\ \E b \in InitialSizes :
         run' = [run EXCEPT ![r] =
                   [restarted |-> TRUE, crashed |-> CrashLeft(r),
                    appended |-> run[r].appended \o run[r].written]
                   @@ RunnerStart(b, run[r].max_attempts, run[r].min_size)]
    /\ UNCHANGED <<filevars, qmvars, ingvars>>

NextInterruptMark == \E r \in Runners : InterruptMark(r)
NextRestart == \E r \in Runners : Restart(r)

NextRuns == Next \/ NextInterruptMark \/ NextRestart

\* The first run of the job: the module's attempt limit, any size and floor
InitRuns ==
    /\ InitQueue(RunnerQueueSrcs)
    /\ InitLedger(RunnerLedgerSrcs)
    /\ InitNoCalls
    /\ \E b \in InitialSizes, f \in Floors :
         run = [r \in {1} |-> RunnerStart(b, MAX_RETRY_ATTEMPTS, f)]

SpecRuns == InitRuns /\ [][NextRuns]_vars

(***************************************************************************)
(* data_ingestion/base.py: DataIngestionScript.run (the PipelineStage) and *)
(* BulkIngestionScript.transform                                           *)
(***************************************************************************)
MaxRecords == 3          \* records of a generated raw payload

\* Python None, and a list of records
None == [none |-> TRUE, items |-> <<>>]
Data(items) == [none |-> FALSE, items |-> items]

\* The raw record at position i of the source; transform_record raises on a
\* bad record
RawRecord(i, bad) == [id |-> i, bad |-> bad, canonical |-> FALSE]

\* transform_record(record) of a subclass, for a record it does not raise on
transform_record(record) == [id |-> record.id, bad |-> record.bad, canonical |-> TRUE]

\* 10 raw records of which the one with index 5 raises
ScenarioRecords == [i \in 1..10 |-> RawRecord(i, i = 6)]

RawLists ==
    {[i \in 1..k |-> RawRecord(i, f[i])] :
        f \in [1..MaxRecords -> BOOLEAN], k \in 0..MaxRecords}
    \cup {ScenarioRecords}

\* The artifact an earlier run left on disk: none, or one transformed record
OldRecord == [id |-> 0, bad |-> FALSE, canonical |-> TRUE]
PriorArtifacts == {None, Data(<<OldRecord>>)}

\* The loop of BulkIngestionScript.transform from index i on; acc holds
\* transformed and the counters of self
RECURSIVE transform_loop(_, _, _)
transform_loop(data, i, acc) ==
    IF i >= Len(data) THEN acc
    ELSE LET record == data[i + 1]
         IN  transform_loop(data, i + 1,
                 IF record.bad
                 THEN [acc EXCEPT !.error_count = @ + 1,
                                  !.error_records = Append(@, [index |-> i])]
                 ELSE [acc EXCEPT !.transformed = Append(@, transform_record(record)),
                                  !.processed_records = @ + 1])

\* BulkIngestionScript.transform(data) on the object self: the object
\* afterwards, with the returned list in transformed
transform(self, data) ==
    transform_loop(data, 0,
                   [transformed |-> <<>>,
                    error_count |-> self.error_count,
                    error_records |-> self.error_records,
                    processed_records |-> self.processed_records])

\* get_summary(): the counts and the success flag
get_summary(self) ==
    [record_count |-> self.record_count,
     error_count |-> self.error_count,
     success |-> self.error_count = 0]

NoError == [step |-> "none", error |-> "none"]

\* __init__, and run() up to the first step
StageStart(kind, artifact) ==
    [pc |-> "fetch", kind |-> kind,
     raw_data |-> None, transformed_data |-> None,
     record_count |-> 0, error_count |-> 0, error_records |-> <<>>,
     processed_records |-> 0,
     result |-> "running",        \* what run() returned: "True" or "False"
     artifact |-> artifact,       \* the output file save() writes
     artifact_before |-> artifact,  \* history: the artifact when run() began
     calls |-> <<>>,              \* history: the lifecycle steps invoked
     returned |-> {},             \* history: the steps that returned without raising
     raised |-> NoError,          \* history: the exception that ended the run
     on_error_calls |-> <<>>,     \* history: the arguments of the on_error calls
     runs |-> 1]                  \* history: run() calls made on the object

\* Mutant of Abort: the handler returns False without counting the error
AbortUncounted(self, step, error) ==
    [self EXCEPT !.pc = "returned",
                 !.raised = [step |-> step, error |-> error],
                 !.on_error_calls = Append(@, error),
                 !.result = "False"]

\* Mutant of Abort: the handler rolls back by removing the artifact
AbortRemovingArtifact(self, step, error) ==
    [self EXCEPT !.pc = "returned",
                 !.raised = [step |-> step, error |-> error],
                 !.error_count = @ + 1,
                 !.on_error_calls = Append(@, error),
                 !.artifact = None,
                 !.result = "False"]

\* run(), lines 101-106: the except clause, with on_error as defined in the
\* base class
Abort(self, step, error) ==
    [self EXCEPT !.pc = "returned",
                 !.raised = [step |-> step, error |-> error],
                 !.error_count = @ + 1,
                 !.on_error_calls = Append(@, error),
                 !.result = "False"]

\* The step `step` of run() is invoked
Invoked(step) == [stage EXCEPT !.calls = Append(@, step)]
Returned(self, step) == [self EXCEPT !.returned = @ \cup {step}]

stagerest == <<filevars, qmvars, run, store, libvars>>

\* run(), lines 72-77
Fetch ==
    /\ stage.pc = "fetch"
    /\ \/ \E items \in RawLists :
            stage' = [Returned(Invoked("fetch"), "fetch") EXCEPT
                        !.raw_data = Data(items), !.pc = "validate"]
       \/ /\ stage.kind = "plain"
          /\ stage' = Abort(Returned(Invoked("fetch"), "fetch"), "fetch",
                            "ValueError: fetch() returned None")
       \/ stage' = Abort(Invoked("fetch"), "fetch", "FetchError")
    /\ UNCHANGED stagerest

\* Mutant of Validate: a validation error is logged and the run goes on
ValidateAdvisory ==
    /\ stage.pc = "validate"
    /\ \/ stage' = [Returned(Invoked("validate"), "validate") EXCEPT !.pc = "transform"]
       \/ stage' = [Invoked("validate") EXCEPT !.pc = "transform"]
    /\ UNCHANGED stagerest

\* run(), lines 79-82
Validate ==
    /\ stage.pc = "validate"
    /\ \/ stage' = [Returned(Invoked("validate"), "validate") EXCEPT !.pc = "transform"]
       \/ stage' = Abort(Invoked("validate"), "validate", "ValidationError")
    /\ UNCHANGED stagerest

\* run(), lines 84-89, with the transform of a subclass of DataIngestionScript
\* (it returns the transformed list, returns None or raises) or the transform
\* of BulkIngestionScript
Transform ==
    /\ stage.pc = "transform"
    /\ IF stage.kind = "bulk"
       THEN LET t == transform(stage, stage.raw_data.items)
            IN  stage' = [Returned(Invoked("transform"), "transform") EXCEPT
                            !.transformed_data = Data(t.transformed),
                            !.error_count = t.error_count,
                            !.error_records = t.error_records,
                            !.processed_records = t.processed_records,
                            !.pc = "save"]
       ELSE \/ stage' = [Returned(Invoked("transform"), "transform") EXCEPT
                           !.transformed_data =
                               Data([i \in 1..Len(stage.raw_data.items) |->
                                       transform_record(stage.raw_data.items[i])]),
                           !.pc = "save"]
            \/ stage' = Abort(Returned(Invoked("transform"), "transform"), "transform",
                              "ValueError: transform() returned None")
            \/ stage' = Abort(Invoked("transform"), "transform", "TransformError")
    /\ UNCHANGED stagerest

\* run(), lines 91-99: save() writes the artifact and returns, or raises with
\* the artifact written or not
Save ==
    /\ stage.pc = "save"
    /\ \/ stage' = [Returned(Invoked("save"), "save") EXCEPT
                      !.artifact = stage.transformed_data,
                      !.pc = "returned", !.result = "True"]
       \/ \E written \in {stage.artifact, stage.transformed_data} :
            stage' = Abort([Invoked("save") EXCEPT !.artifact = written],
                           "save", "StorageError")
    /\ UNCHANGED stagerest

NextStage == Fetch \/ Validate \/ Transform \/ Save

\* No queue, no ledger and no runner
InitNoQueue ==
    /\ queueFile = NoFile /\ queueSrc = <<>>
    /\ ledgerFile = NoFile /\ ledgerSrc = <<>>
    /\ qm_last = NoResult /\ qm_called = {} /\ qm_marked = {}
    /\ run = <<>>

InitStage ==
    /\ InitNoQueue
    /\ store = NoStore
    /\ InitNoLib
    /\ \E kind \in {"plain", "bulk"}, artifact \in PriorArtifacts :
         stage = StageStart(kind, artifact)

SpecStage == InitStage /\ [][NextStage]_vars

(***************************************************************************)
(* data_ingestion/utils/storage.py: save_json and load_json (the           *)
(* AtomicStore).  A Python value is a record [t, v, items]; the text of a  *)
(* file is the sequence of the JSON tokens written to it, so that a file   *)
(* whose writing stopped early holds a proper prefix of a document.        *)
(***************************************************************************)
MaxSaves == 2            \* save_json calls of a behaviour

NoValue == [t |-> "none", v |-> "", items |-> <<>>]
StrVal(v) == [t |-> "str", v |-> v, items |-> <<>>]
IntVal(v) == [t |-> "int", v |-> v, items |-> <<>>]
DatetimeVal(v) == [t |-> "datetime", v |-> v, items |-> <<>>]
ListVal(items) == [t |-> "list", v |-> "", items |-> items]
TupleVal(items) == [t |-> "tuple", v |-> "", items |-> items]
\* The dict {key: val}
DictVal(key, val) == [t |-> "dict", v |-> "", items |-> <<key, val>>]

Tok(k, v) == [tok |-> k, v |-> v]

\* The encoding of a str, an int, or a value handed to default=str
ScalarText(x) ==
    IF x.t = "int" THEN <<Tok("number", x.v)>> ELSE <<Tok("string", x.v)>>

RECURSIVE ItemsText(_)
ItemsText(items) ==
    IF items = <<>> THEN <<>> ELSE ScalarText(Head(items)) \o ItemsText(Tail(items))

\* json.dump(data, f, indent=indent, default=str): whether it returns, and the
\* tokens it has written when it returns or raises (a key that is not a str
\* or a number raises TypeError after the opening brace was written)
dumps(data) ==
    CASE data.t \in {"list", "tuple"} ->
           [ok |-> TRUE,
            text |-> <<Tok("[", "")>> \o ItemsText(data.items) \o <<Tok("]", "")>>]
      [] data.t = "dict" ->
           IF data.items[1].t \in {"str", "int"}
           THEN [ok |-> TRUE,
                 text |-> <<Tok("{", ""), Tok("string", data.items[1].v)>>
                          \o ScalarText(data.items[2]) \o <<Tok("}", "")>>]
           ELSE [ok |-> FALSE, text |-> <<Tok("{", "")>>]
      [] OTHER -> [ok |-> TRUE, text |-> ScalarText(data)]

IsScalarTok(tok) == tok.tok \in {"string", "number"}
TokValue(tok) == IF tok.tok = "number" THEN IntVal(tok.v) ELSE StrVal(tok.v)

\* json.load(f): the value parsed, or JSONDecodeError
loads(text) ==
    IF Len(text) = 1 /\ IsScalarTok(text[1])
    THEN [ok |-> TRUE, value |-> TokValue(text[1])]
    ELSE IF /\ Len(text) >= 2
            /\ text[1].tok = "[" /\ text[Len(text)].tok = "]"
            /\ \A i \in 2..(Len(text) - 1) : IsScalarTok(text[i])
    THEN [ok |-> TRUE,
          value |-> ListVal([i \in 1..(Len(text) - 2) |-> TokValue(text[i + 1])])]
    ELSE IF /\ Len(text) = 4
            /\ text[1].tok = "{" /\ text[4].tok = "}"
            /\ text[2].tok = "string" /\ IsScalarTok(text[3])
    THEN [ok |-> TRUE, value |-> DictVal(StrVal(text[2].v), TokValue(text[3]))]
    ELSE [ok |-> FALSE, value |-> NoValue]

Absent == [exists |-> FALSE, text |-> <<>>]
Holding(text) == [exists |-> TRUE, text |-> text]

\* load_json(file_path) on the file `file`: the parsed data, or IOError for a
\* missing file or for invalid JSON
load_json(file) ==
    IF ~file.exists THEN [kind |-> "not_found", value |-> NoValue]
    ELSE IF loads(file.text).ok
         THEN [kind |-> "value", value |-> loads(file.text).value]
         ELSE [kind |-> "invalid", value |-> NoValue]

\* The data the callers save
Payloads ==
    {ListVal(<<>>), ListVal(<<StrVal("a")>>), ListVal(<<StrVal("a"), IntVal("1")>>),
     ListVal(<<DatetimeVal("d")>>), TupleVal(<<StrVal("a")>>),
     DictVal(StrVal("k"), StrVal("a")), DictVal(IntVal("1"), StrVal("a")),
     DictVal(TupleVal(<<>>), StrVal("a"))}
OldPayload == ListVal(<<StrVal("old")>>)

\* The directory before the first call: the destination does not exist or
\* holds what an earlier run saved
StoreStart(saved) ==
    [pc |-> "idle",
     dest |-> IF saved = NoValue THEN Absent ELSE Holding(dumps(saved).text),
     tmp |-> Absent,            \* the NamedTemporaryFile of the running call
     temps |-> {},              \* the texts of the temp files left in the directory
     data |-> NoValue, atomic |-> TRUE,
     saves |-> 0,
     prior |-> IF saved = NoValue THEN Absent ELSE Holding(dumps(saved).text),
                                \* history: the destination when the call began
     last_exc |-> "none",       \* history: what the last call raised
     last_saved |-> saved,      \* history: the data of the last completed save
     last_load |-> [kind |-> "none", value |-> NoValue, after |-> NoValue,
                    killed |-> FALSE],
     direct_used |-> FALSE,     \* history: a call with atomic=False was made
     killed |-> FALSE]          \* history: the process was killed inside the last call

storerest == <<filevars, qmvars, run, stage, libvars>>

\* save_json, lines 36-49 and 64-67: the temp file is created in the
\* destination directory, or the destination is opened for writing (and
\* truncated); either can raise
SaveStart ==
    /\ store.pc = "idle"
    /\ store.saves < MaxSaves
    /\ \E data \in Payloads, atomic \in BOOLEAN :
         LET call == [store EXCEPT !.data = data, !.atomic = atomic,
                                   !.saves = @ + 1, !.prior = store.dest,
                                   !.killed = FALSE,
                                   !.direct_used = @ \/ ~atomic]
         IN  \/ /\ atomic
                /\ store' = [call EXCEPT !.pc = "dump", !.tmp = Holding(<<>>),
                                         !.last_exc = "none"]
             \/ /\ atomic
                /\ store' = [call EXCEPT !.last_exc = "OSError"]
             \/ /\ ~atomic
                /\ store' = [call EXCEPT !.pc = "direct", !.dest = Holding(<<>>),
                                         !.last_saved = NoValue,
                                         !.last_exc = "none"]
             \/ /\ ~atomic
                /\ store' = [call EXCEPT !.last_exc = "IOError"]
    /\ UNCHANGED storerest

\* Mutant of Dump: the document is written into the destination file
DumpInPlace ==
    /\ store.pc = "dump"
    /\ LET r == dumps(store.data)
       IN  \/ /\ r.ok
              /\ store' = [store EXCEPT !.pc = "rename", !.tmp = Holding(r.text),
                                        !.dest = Holding(r.text)]
           \/ \E k \in 0..(Len(r.text) - 1) :
                store' = [store EXCEPT !.pc = "idle", !.tmp = Absent,
                                       !.dest = Holding(SubSeq(r.text, 1, k)),
                                       !.temps = @ \cup {SubSeq(r.text, 1, k)},
                                       !.last_exc = "OSError"]
    /\ UNCHANGED storerest

\* save_json, lines 43-51: json.dump into the temp file and the close at the
\* end of the with block.  The block has no handler: when json.dump raises
\* (TypeError) or a write fails (OSError) the exception leaves save_json and
\* the temp file, created with delete=False, stays
Dump ==
    /\ store.pc = "dump"
    /\ LET r == dumps(store.data)
       IN  \/ /\ r.ok
              /\ store' = [store EXCEPT !.pc = "rename", !.tmp = Holding(r.text)]
           \/ /\ ~r.ok
              /\ store' = [store EXCEPT !.pc = "idle", !.tmp = Absent,
                                        !.temps = @ \cup {r.text},
                                        !.last_exc = "TypeError"]
           \/ \E k \in 0..(Len(r.text) - 1) :
                store' = [store EXCEPT !.pc = "idle", !.tmp = Absent,
                                       !.temps = @ \cup {SubSeq(r.text, 1, k)},
                                       !.last_exc = "OSError"]
    /\ UNCHANGED storerest

\* Mutant of Rename: the temp file's text is added to the destination's
RenameAppending ==
    /\ store.pc = "rename"
    /\ store' = [store EXCEPT !.pc = "idle",
                              !.dest = Holding(store.dest.text \o store.tmp.text),
                              !.tmp = Absent, !.last_saved = store.data]
    /\ UNCHANGED storerest

\* save_json, lines 53-63: the rename over the destination; when it raises
\* the temp file is unlinked (a failure of the unlink is ignored) and IOError
\* is raised
Rename ==
    /\ store.pc = "rename"
    /\ \/ store' = [store EXCEPT !.pc = "idle", !.dest = store.tmp,
                                 !.tmp = Absent, !.last_saved = store.data]
       \/ store' = [store EXCEPT !.pc = "idle", !.tmp = Absent,
                                 !.last_exc = "IOError"]
       \/ store' = [store EXCEPT !.pc = "idle", !.tmp = Absent,
                                 !.temps = @ \cup {store.tmp.text},
                                 !.last_exc = "IOError"]
    /\ UNCHANGED storerest

\* save_json, lines 64-70: the direct write; an exception leaves what was
\* written and is raised as IOError
DirectWrite ==
    /\ store.pc = "direct"
    /\ LET r == dumps(store.data)
       IN  \/ /\ r.ok
              /\ store' = [store EXCEPT !.pc = "idle", !.dest = Holding(r.text),
                                        !.last_saved = store.data]
           \/ \E k \in 0..Len(r.text) :
                /\ k < Len(r.text) \/ ~r.ok
                /\ store' = [store EXCEPT !.pc = "idle",
                                          !.dest = Holding(SubSeq(r.text, 1, k)),
                                          !.last_exc = "IOError"]
    /\ UNCHANGED storerest

\* The process is killed inside save_json: the files stay as they are, with
\* the part of the document written so far
Kill ==
    /\ store.pc \in {"dump", "rename", "direct"}
    /\ LET r == dumps(store.data)
       IN  \/ /\ store.pc = "dump"
              /\ \E k \in 0..Len(r.text) :
                   store' = [store EXCEPT !.pc = "idle", !.tmp = Absent,
                                          !.temps = @ \cup {SubSeq(r.text, 1, k)},
                                          !.killed = TRUE]
           \/ /\ store.pc = "rename"
              /\ store' = [store EXCEPT !.pc = "idle", !.tmp = Absent,
                                        !.temps = @ \cup {store.tmp.text},
                                        !.killed = TRUE]
           \/ /\ store.pc = "direct"
              /\ \E k \in 0..Len(r.text) :
                   store' = [store EXCEPT !.pc = "idle",
                                          !.dest = Holding(SubSeq(r.text, 1, k)),
                                          !.killed = TRUE]
    /\ UNCHANGED storerest

\* A reader calls load_json(file_path), at any moment
Load ==
    /\ store' = [store EXCEPT !.last_load =
                     [kind |-> load_json(store.dest).kind,
                      value |-> load_json(store.dest).value,
                      after |-> IF store.pc = "idle" THEN store.last_saved
                                ELSE NoValue,
                      killed |-> store.killed]]
    /\ UNCHANGED storerest

NextStore == SaveStart \/ Dump \/ Rename \/ DirectWrite \/ Kill \/ Load

InitStore ==
    /\ InitNoQueue
    /\ stage = NoStage
    /\ InitNoLib
    /\ \E saved \in {NoValue, OldPayload} : store = StoreStart(saved)

SpecStore == InitStore /\ [][NextStore]_vars

(***************************************************************************)
(* Properties                                                              *)
(***************************************************************************)
Done(r) == run[r].pc = "done"
Last(z) == z[Len(z)]
LedgerTickers == SeqRange(parse_processed_file(ledgerFile))

\* C1: within one run the batch sizes of successive attempts never increase
\* and none is below the floor min_size, whatever the arguments and outcomes.
C1_BatchSizeMonotoneAboveFloor ==
    \A r \in Runners :
      LET z == run[r].sizes
      IN  /\ \A i \in 1..Len(z) :
               /\ z[i] >= run[r].min_size
               /\ i > 1 => z[i] <= z[i - 1]
          /\ z # <<>> => z[1] = run[r].batch_size /\ run[r].current_batch_size <= Last(z)

C1_Witness ==
    \E r \in Runners :
      /\ Len(run[r].sizes) >= 3
      /\ Last(run[r].sizes) = run[r].min_size
      /\ Last(run[r].sizes) < run[r].sizes[1]

\* Every generate_locations invocation of the finished run r failed
AllFailed(r) ==
    /\ Done(r)
    /\ ~run[r].interrupted
    /\ run[r].invokes > 0
    /\ run[r].failed = run[r].invokes

\* Each attempted size after the first is smaller than the one before and is
\* the half of it, rounded down and raised to the floor
ShrinksByHalving(r) ==
    LET z == run[r].sizes
    IN  /\ z[1] = run[r].batch_size
        /\ \A i \in 2..Len(z) :
             /\ z[i] < z[i - 1]
             /\ z[i] = (IF z[i - 1] \div 2 >= run[r].min_size
                        THEN z[i - 1] \div 2 ELSE run[r].min_size)

\* C2 as stated: with every invocation failing the sizes shrink by halving
\* until the floor has been attempted (80, 40, 20, 10, 5 for size 80 and floor
\* 5), and the run then ends in FAILURE.
C2_ShrinksUntilFloor ==
    \A r \in Runners :
      AllFailed(r) =>
        /\ run[r].exit_code = 1
        /\ ShrinksByHalving(r)
        /\ Last(run[r].sizes) = run[r].min_size
        /\ (run[r].batch_size = 80 /\ run[r].min_size = 5)
             => run[r].sizes = <<80, 40, 20, 10, 5>>

\* C2 amended: with every invocation failing the sizes shrink by halving until
\* the floor has been attempted or max_attempts attempts have been made, and
\* the run then ends in FAILURE without a further attempt and without a ledger
\* write; size 80 and floor 5 give 80, 40, 20, 10, 5 when max_attempts >= 5
\* and 80, 40, 20 under the configured limit of 3 attempts.
C2_ShrinksUntilFloorOrLimit ==
    \A r \in Runners :
      AllFailed(r) =>
        /\ run[r].exit_code = 1
        /\ run[r].message
        /\ ~run[r].marked
        /\ ShrinksByHalving(r)
        /\ run[r].invokes <= Len(run[r].sizes)
        /\ \/ Last(run[r].sizes) = run[r].min_size
           \/ Len(run[r].sizes) = run[r].max_attempts
        /\ (run[r].batch_size = 80 /\ run[r].min_size = 5
            /\ run[r].max_attempts >= 5)
             => run[r].sizes = <<80, 40, 20, 10, 5>>
        /\ (run[r].batch_size = 80 /\ run[r].min_size = 5
            /\ run[r].max_attempts = MAX_RETRY_ATTEMPTS)
             => run[r].sizes = <<80, 40, 20>>

C2_Witness ==
    \E r \in Runners :
      /\ AllFailed(r)
      /\ run[r].sizes = <<80, 40, 20, 10, 5>>
      /\ run[r].exit_code = 1

\* C3: the number of generate_locations invocations of a run never exceeds
\* max_attempts, also when the floor has not been reached.
C3_InvokesWithinMaxAttempts ==
    \A r \in Runners :
      /\ run[r].invokes <= run[r].max_attempts
      /\ run[r].attempt <= run[r].max_attempts

C3_Witness ==
    \E r \in Runners :
      /\ Done(r)
      /\ ~run[r].interrupted
      /\ run[r].max_attempts >= 2
      /\ run[r].invokes = run[r].max_attempts
      /\ run[r].current_batch_size > run[r].min_size
      /\ run[r].exit_code = 1

\* C4: the ledger file changes only in the step in which a runner marks the
\* batch whose generate_locations invocation and metadata build both returned
\* success, and only lines for tickers of that batch are appended; so a run
\* whose invocations fail, time out or are killed leaves the ledger unchanged.
C4_LedgerWrittenOnlyAfterSuccess ==
    [][ledgerFile' # ledgerFile =>
         \E r \in Runners :
           /\ run[r].pc = "finish"
           /\ run[r].inv_ok /\ run[r].meta_ok
           /\ run'[r].marked
           /\ Len(ledgerFile'.lines) >= Len(ledgerFile.lines)
           /\ SubSeq(ledgerFile'.lines, 1, Len(ledgerFile.lines)) = ledgerFile.lines
           /\ SeqRange(ProcessedLinesTickers(
                   SubSeq(ledgerFile'.lines, Len(ledgerFile.lines) + 1,
                          Len(ledgerFile'.lines))))
                \subseteq SeqRange(run[r].batch_tickers)]_vars

C4_Witness ==
    \E r \in Runners :
      /\ Done(r)
      /\ run[r].marked
      /\ run[r].failed >= 1
      /\ run[r].batch_tickers # <<>>
      /\ SeqRange(run[r].batch_tickers) \subseteq LedgerTickers
      /\ run[r].exit_code = 0
      /\ ledgerSrc # <<>>
      /\ Last(ledgerSrc).ticker = Last(run[r].batch_tickers)

\* C5: whenever a run ends with exit code 0 after process_batch_with_retry
\* returned a non-empty batch, the ledger holds a line for every ticker of
\* that batch.
C5_SuccessExitImpliesLedger ==
    \A r \in Runners :
      (Done(r) /\ run[r].exit_code = 0 /\ run[r].ret_tickers # <<>>)
        => SeqRange(run[r].ret_tickers) \subseteq LedgerTickers

\* C6: a run in which a selection found the remaining queue empty ends with
\* exit code 0, without the failure message and without a ledger write.
C6_EmptyQueueExitsZero ==
    \A r \in Runners :
      (Done(r) /\ run[r].no_work)
        => run[r].exit_code = 0 /\ ~run[r].message /\ ~run[r].marked

\* C7: a finished run whose retries are exhausted (process_batch_with_retry
\* returned failure) has logged "Manual intervention may be required" and
\* exits 1; a run exits 0 only if it found nothing to do or its invocation and
\* metadata build succeeded, and then without the failure message.
C7_ExitCodeReflectsTerminalState ==
    \A r \in Runners :
      Done(r) =>
        /\ (run[r].entered /\ ~run[r].interrupted /\ ~run[r].success)
             => run[r].exit_code = 1 /\ run[r].message
        /\ run[r].interrupted => run[r].exit_code = 1
        /\ run[r].exit_code = 0 =>
             /\ ~run[r].message
             /\ ~run[r].interrupted
             /\ ~run[r].entered \/ (run[r].inv_ok /\ run[r].meta_ok)

C7_Witness ==
    \E r \in Runners :
      /\ Done(r)
      /\ run[r].entered /\ ~run[r].interrupted /\ ~run[r].success
      /\ Len(run[r].sizes) >= 2
      /\ run[r].failed >= 1
      /\ run[r].message
      /\ run[r].exit_code = 1

\* C8: a get_next_batch call changes neither the queue file nor the ledger
\* file, and a call with the same n as the call before it, with no
\* mark_batch_complete between them, returns the same batch and the same
\* remaining count.
C8_GetNextBatchIdempotentRead ==
    [][qm_last'.valid =>
         /\ queueFile' = queueFile
         /\ ledgerFile' = ledgerFile
         /\ (qm_last.valid /\ qm_last'.n = qm_last.n) =>
              /\ qm_last'.batch = qm_last.batch
              /\ qm_last'.remaining_count = qm_last.remaining_count]_vars

C8_Witness ==
    /\ qm_last.valid
    /\ qm_last.repeated
    /\ qm_last.batch # <<>>
    /\ qm_last.remaining_count > Len(qm_last.batch)

BatchTickers(batch) == {batch[i].ticker : i \in 1..Len(batch)}

QueuedItems ==
    LET kept == SelectSeq(queueSrc, LAMBDA d : d.kind \in {"brand", "padded"})
    IN  [i \in 1..Len(kept) |->
           [ticker |-> kept[i].ticker, name |-> Name, category |-> Category]]
CompletedTickers ==
    {ledgerSrc[i].ticker : i \in {j \in 1..Len(ledgerSrc) :
                                    ledgerSrc[j].kind \in {"entry", "padded", "bare"}}}
RemainingItems == SelectSeq(QueuedItems, LAMBDA b : b.ticker \notin CompletedTickers)

\* C10: get_next_batch(n) returns the first n of the queued items whose ticker
\* has no ledger line, in queue-file order (all of them if fewer than n
\* remain), and their number; comment and blank lines of both files are
\* ignored.  Queue A, B, C, D, E with A and C in the ledger and n = 2 gives
\* the batch B, D and 3 remaining.
C10_FirstNOfRemaining ==
    qm_last.valid =>
      /\ qm_last.batch =
           SubSeq(RemainingItems, 1,
                  IF qm_last.n <= Len(RemainingItems) THEN qm_last.n
                  ELSE Len(RemainingItems))
      /\ qm_last.remaining_count = Len(RemainingItems)
      /\ (queueSrc = ScenarioQueueSrc /\ ledgerSrc = ScenarioLedgerSrc
          /\ qm_last.n = 2)
           => /\ [i \in 1..Len(qm_last.batch) |-> qm_last.batch[i].ticker]
                   = << <<"B">>, <<"D">> >>
              /\ qm_last.remaining_count = 3

C10_Witness ==
    /\ qm_last.valid
    /\ qm_last.n = 2
    /\ queueSrc = ScenarioQueueSrc
    /\ ledgerSrc = ScenarioLedgerSrc
    /\ Len(qm_last.batch) = 2
    /\ qm_last.batch[1].ticker = <<"B">>
    /\ qm_last.batch[2].ticker = <<"D">>
    /\ qm_last.remaining_count = 3

CountIn(seq, x) == Cardinality({i \in 1..Len(seq) : seq[i] = x})
IsPrefix(a, b) == Len(a) <= Len(b) /\ a = SubSeq(b, 1, Len(a))
QueuedTickerSeq == [i \in 1..Len(QueuedItems) |-> QueuedItems[i].ticker]

\* The step in which run r calls mark_batch_complete
MarkStep(r) == run[r].pc = "finish" /\ run'[r].marked

\* The tickers of the ledger lines the step appends
AddedTickers ==
    SubSeq(parse_processed_file(ledgerFile'),
           Len(parse_processed_file(ledgerFile)) + 1,
           Len(parse_processed_file(ledgerFile')))

\* C11 as stated: over the runs of the job, executed one at a time, every
\* mark_batch_complete call appends exactly one ledger line for each ticker of
\* its batch, and no ticker ever has more than one ledger line.
C11_OneLinePerTicker ==
    [][\A r \in Runners :
         MarkStep(r) =>
           /\ AddedTickers = run[r].ret_tickers
           /\ \A t \in Tickers :
                CountIn(parse_processed_file(ledgerFile'), t) <= 1]_vars

\* C11 amended: over the runs of the job, executed one at a time, a
\* mark_batch_complete call only appends; when it returns True it has appended
\* exactly one line for each item of its batch, in batch order, and when it
\* fails or is interrupted it has appended the lines of a prefix of the batch.
\* No line is appended for a ticker that had a ledger line, and a ticker gets
\* no more lines than the queue has lines for it: at most one when the queue
\* lists each ticker once, two when the queue lists it twice and both items
\* fall into one batch.
C11_OneLinePerQueuedItem ==
    [][\A r \in Runners :
         MarkStep(r) =>
           LET before == parse_processed_file(ledgerFile)
               after == parse_processed_file(ledgerFile')
           IN  /\ IsPrefix(before, after)
               /\ IsPrefix(ledgerFile.lines, ledgerFile'.lines)
               /\ Len(ledgerFile'.lines) - Len(ledgerFile.lines) = Len(AddedTickers)
               /\ IsPrefix(AddedTickers, run[r].ret_tickers)
               /\ run'[r].mark_ret => AddedTickers = run[r].ret_tickers
               /\ \A t \in SeqRange(AddedTickers) :
                    /\ t \notin SeqRange(before)
                    /\ CountIn(AddedTickers, t) <= CountIn(QueuedTickerSeq, t)
               /\ \A t \in Tickers :
                    (CountIn(QueuedTickerSeq, t) <= 1 /\ CountIn(before, t) <= 1)
                      => CountIn(after, t) <= 1]_vars

\* A later run of the job has marked its batch after an earlier run marked
\* another ticker, and each of the tickers has one ledger line
C11_Witness ==
    \E r \in Runners :
      /\ Done(r)
      /\ run[r].restarted
      /\ run[r].marked /\ run[r].mark_ret
      /\ run[r].appended # <<>>
      /\ run[r].written = run[r].ret_tickers
      /\ SeqRange(run[r].appended) \cap SeqRange(run[r].written) = {}
      /\ SeqRange(run[r].appended) \cup SeqRange(run[r].written) \subseteq LedgerTickers
      /\ \A t \in Tickers : CountIn(parse_processed_file(ledgerFile), t) <= 1

RemainingTickers == BatchTickers(Remaining(queueFile, ledgerFile))

\* Run r, started after a run that was interrupted with ingested tickers not
\* yet in the ledger, has made its first selection
FirstSelectionAfterCrash(r) ==
    /\ run[r].crashed.tickers # <<>>
    /\ Len(run[r].sizes) = 1
    /\ run[r].pc \in {"invoke", "finish"}

\* The tickers a crash of run r leaves behind are in the remaining set
CrashLeavesEligible ==
    \A r \in Runners :
      /\ Done(r) => SeqRange(CrashLeft(r).tickers) \subseteq RemainingTickers
      /\ run[r].pc \in {"main", "loop"} /\ run[r].sizes = <<>>
           => SeqRange(run[r].crashed.tickers) \subseteq RemainingTickers

\* Every ticker the operator queued has a ledger line or is in the remaining
\* set
NoQueuedTickerLost == QueuedTickers \subseteq LedgerTickers \cup RemainingTickers

\* No step changes the queue file, and the ledger only grows, by lines for
\* tickers of a batch whose ingestion and metadata build succeeded in that run
LedgerOnlyAfterIngestion ==
    /\ queueFile' = queueFile
    /\ ledgerFile' # ledgerFile =>
         /\ IsPrefix(ledgerFile.lines, ledgerFile'.lines)
         /\ \E r \in Runners :
              /\ run[r].pc = "finish"
              /\ run[r].inv_ok /\ run[r].meta_ok
              /\ SeqRange(AddedTickers) \subseteq SeqRange(run[r].batch_tickers)

\* C12 as stated: a ticker whose ingestion succeeded in a run that crashed
\* before its ledger line was written is still in the remaining set, and the
\* next run (started with a batch size of at least 1) selects it; no queued
\* ticker is lost by a crash at any point.
C12_CrashedTickerSelectedNext ==
    /\ [](CrashLeavesEligible /\ NoQueuedTickerLost)
    /\ [](\A r \in Runners :
            (FirstSelectionAfterCrash(r) /\ run[r].batch_size >= 1) =>
              SeqRange(run[r].crashed.tickers) \subseteq SeqRange(run[r].batch_tickers))
    /\ [][LedgerOnlyAfterIngestion]_vars

\* C12 amended: a ticker whose ingestion succeeded in a run that crashed
\* before its ledger line was written is still in the remaining set when the
\* next run starts, and the first selection of the next run contains it
\* whenever that run's batch size is not below the size the crashed run
\* selected with (the initial size is drawn anew for every process, so a
\* smaller draw can leave the ticker for a later run).  No crash changes the
\* queue file or writes a ledger line for a ticker not ingested: every queued
\* ticker has a ledger line or is in the remaining set.
C12_CrashedTickerStaysEligible ==
    /\ [](CrashLeavesEligible /\ NoQueuedTickerLost)
    /\ [](\A r \in Runners :
            (FirstSelectionAfterCrash(r) /\ run[r].batch_size >= run[r].crashed.size)
              => SeqRange(run[r].crashed.tickers) \subseteq SeqRange(run[r].batch_tickers))
    /\ [][LedgerOnlyAfterIngestion]_vars

\* The run after a crash has selected, ingested and marked the tickers the
\* crash left behind
C12_Witness ==
    \E r \in Runners :
      /\ Done(r)
      /\ run[r].crashed.tickers # <<>>
      /\ run[r].batch_size >= run[r].crashed.size
      /\ run[r].marked /\ run[r].mark_ret
      /\ SeqRange(run[r].crashed.tickers) \subseteq SeqRange(run[r].written)
      /\ SeqRange(run[r].crashed.tickers) \subseteq LedgerTickers

\* C13: two runners interleaved on the same queue and ledger files take no
\* lock and do not look at the ledger when they complete: a ticker that both
\* selected and both wrote a ledger line for has two ledger lines, and each
\* runner's batch was ingested by its own generate_locations invocation.
C13_BothRunnersAppend ==
    \A r1, r2 \in Runners :
      r1 # r2 =>
        \A t \in SeqRange(run[r1].written) \cap SeqRange(run[r2].written) :
          /\ CountIn(parse_processed_file(ledgerFile), t) >= 2
          /\ run[r1].inv_ok /\ run[r2].inv_ok
          /\ run[r1].invokes >= 1 /\ run[r2].invokes >= 1

\* Both runners selected the same ticker, ingested it, marked it and exited 0;
\* the ledger holds two lines for it
C13_Witness ==
    \E r1, r2 \in Runners :
      /\ r1 # r2
      /\ Done(r1) /\ Done(r2)
      /\ run[r1].exit_code = 0 /\ run[r2].exit_code = 0
      /\ run[r1].mark_ret /\ run[r2].mark_ret
      /\ \E t \in Tickers :
           /\ t \in SeqRange(run[r1].ret_tickers) \cap SeqRange(run[r2].ret_tickers)
           /\ t \in SeqRange(run[r1].written) \cap SeqRange(run[r2].written)
           /\ CountIn(QueuedTickerSeq, t) = 1
           /\ CountIn(parse_processed_file(ledgerFile), t) = 2

Steps == <<"fetch", "validate", "transform", "save">>

\* C14: run() invokes fetch, validate, transform and save in that order, each
\* at most once, and a step only after every earlier step returned without
\* raising; nothing is invoked after a step raised, and a run that returns
\* True has invoked all four.
C14_StepsStrictlyInOrder ==
    LET c == stage.calls
    IN  /\ IsPrefix(c, Steps)
        /\ \A i \in 2..Len(c) :
             /\ c[i - 1] \in stage.returned
             /\ stage.raised.step # c[i - 1]
        /\ stage.raised.step # "none" => Last(c) = stage.raised.step
        /\ stage.result = "True" => c = Steps /\ stage.returned = SeqRange(Steps)

C14_Witness ==
    /\ stage.result = "True"
    /\ stage.calls = Steps
    /\ Len(stage.raw_data.items) >= 2
    /\ stage.artifact = stage.transformed_data

\* C15: an exception raised by fetch, validate, transform or save, and a None
\* returned by fetch or transform, ends the run: error_count has grown by one
\* (beyond the record errors counted by a bulk transform), on_error has been
\* called once, with that exception, the failing step is the last one invoked
\* and run() has returned False; without an exception on_error is not called.
C15_ExceptionAbortsRun ==
    /\ stage.raised.step # "none" =>
         /\ stage.pc = "returned"
         /\ stage.result = "False"
         /\ stage.error_count = Len(stage.error_records) + 1
         /\ stage.on_error_calls = <<stage.raised.error>>
         /\ Last(stage.calls) = stage.raised.step
    /\ stage.raised.step = "none" =>
         /\ stage.on_error_calls = <<>>
         /\ stage.error_count = Len(stage.error_records)
         /\ stage.result # "False"
    /\ ("fetch" \in stage.returned /\ stage.raw_data.none)
         => stage.raised.step = "fetch"
    /\ ("transform" \in stage.returned /\ stage.transformed_data.none)
         => stage.raised.step = "transform"

\* save raised after a bulk transform that had counted a record error
C15_Witness ==
    /\ stage.raised = [step |-> "save", error |-> "StorageError"]
    /\ stage.kind = "bulk"
    /\ stage.error_records # <<>>
    /\ stage.error_count = Len(stage.error_records) + 1
    /\ stage.on_error_calls = <<"StorageError">>
    /\ stage.result = "False"

\* C16: a run that fails in fetch, validate or transform has not called save
\* and leaves the artifact as it was; the artifact changes only in the save
\* step, which is reached only after the three earlier steps succeeded.
C16_ArtifactChangesOnlyInSave ==
    /\ [](stage.raised.step \in {"fetch", "validate", "transform"} =>
            /\ "save" \notin SeqRange(stage.calls)
            /\ stage.artifact = stage.artifact_before)
    /\ [][stage'.artifact # stage.artifact =>
            /\ stage.pc = "save"
            /\ {"fetch", "validate", "transform"} \subseteq stage.returned
            /\ stage.raised.step = "none"
            /\ ~stage.raw_data.none
            /\ ~stage.transformed_data.none]_vars

C16_Witness ==
    /\ stage.raised.step = "transform"
    /\ stage.result = "False"
    /\ "save" \notin SeqRange(stage.calls)
    /\ stage.artifact_before = Data(<<OldRecord>>)
    /\ stage.artifact = stage.artifact_before

\* The records of the raw payload that transform_record does not raise on, and
\* the indexes of those it raises on
GoodRecords == SelectSeq(stage.raw_data.items, LAMBDA rec : ~rec.bad)
BadRecords == SelectSeq(stage.raw_data.items, LAMBDA rec : rec.bad)

\* The bulk transform excludes exactly the records that raise, keeps the order
\* of the others, and counts and lists one error, with the index, for each
RecordIsolation ==
    (stage.kind = "bulk" /\ "transform" \in stage.returned) =>
      /\ stage.transformed_data.items =
           [i \in 1..Len(GoodRecords) |-> transform_record(GoodRecords[i])]
      /\ stage.error_records =
           [j \in 1..Len(BadRecords) |-> [index |-> BadRecords[j].id - 1]]
      /\ stage.error_count =
           Len(BadRecords) + (IF stage.raised.step = "save" THEN 1 ELSE 0)
      /\ stage.processed_records = Len(GoodRecords)
      /\ stage.raw_data.items = ScenarioRecords =>
           /\ Len(stage.transformed_data.items) = 9
           /\ stage.error_records = <<[index |-> 5]>>

\* C17: a record whose transform_record raises is excluded, counted and listed
\* and does not abort the batch; with 10 records of which index 5 raises the
\* run yields the 9 others in order with error_count 1, and the run still
\* reports success: run() returns True and the summary's success is True.
C17_RecordIsolationKeepsSuccess ==
    /\ RecordIsolation
    /\ (stage.kind = "bulk" /\ stage.result = "True") => get_summary(stage).success

\* C18: while only atomic saves are made, at every moment of a call and after
\* it, also when the process is killed before the rename, the destination is
\* what it was when the call began or the complete new document, and
\* load_json returns a complete document or reports the file missing; it
\* never meets truncated content.
C18_DestinationNeverPartial ==
    ~store.direct_used =>
      /\ store.dest.exists => loads(store.dest.text).ok
      /\ store.saves > 0 =>
           store.dest \in {store.prior, Holding(dumps(store.data).text)}
      /\ store.pc # "idle" => store.dest = store.prior
      /\ store.killed => store.dest = store.prior
      /\ store.last_load.kind \in {"none", "not_found", "value"}

\* The process was killed with part of the document in the temp file, and a
\* load afterwards returned the prior content
C18_Witness ==
    /\ ~store.direct_used
    /\ store.killed
    /\ \E text \in store.temps : text # <<>> /\ ~loads(text).ok
    /\ store.prior.exists
    /\ store.dest = store.prior
    /\ store.last_load.killed
    /\ store.last_load.kind = "value"
    /\ store.last_load.value = OldPayload

\* C19: after an atomic save that raised during serialization or write, no
\* temp file is left in the destination directory and the destination is as
\* it was before the call.
C19_FailedSaveLeavesNoTemp ==
    (/\ store.pc = "idle"
     /\ store.saves > 0
     /\ store.atomic
     /\ ~store.killed
     /\ store.last_exc \in {"TypeError", "OSError"})
      => /\ store.temps = {}
         /\ store.dest = store.prior

\* What json leaves of a value: a tuple becomes a list, a value json does not
\* know becomes its str(), a number used as a key becomes a string
RECURSIVE JsonImage(_)
JsonImage(x) ==
    CASE x.t = "datetime" -> StrVal(x.v)
      [] x.t \in {"list", "tuple"} ->
           ListVal([i \in 1..Len(x.items) |-> JsonImage(x.items[i])])
      [] x.t = "dict" -> DictVal(StrVal(x.items[1].v), JsonImage(x.items[2]))
      [] OTHER -> x

RECURSIVE IsJsonNative(_)
IsJsonNative(x) ==
    CASE x.t \in {"str", "int"} -> TRUE
      [] x.t = "list" -> \A i \in 1..Len(x.items) : IsJsonNative(x.items[i])
      [] x.t = "dict" -> x.items[1].t = "str" /\ IsJsonNative(x.items[2])
      [] OTHER -> FALSE

\* C20 as stated: a load after a completed save returns a value equal to the
\* data saved, for every data save_json accepted, and a later save replaces
\* the earlier content.
C20_RoundTripEqual ==
    (~store.direct_used /\ store.last_load.after # NoValue) =>
      /\ store.last_load.kind = "value"
      /\ store.last_load.value = store.last_load.after

\* C20 amended: a load after a completed atomic save returns the JSON image
\* of the data saved: a value equal to the data when the data is made of
\* lists, dicts with string keys, strings and numbers, and otherwise the data
\* with tuples turned into lists, number keys into strings and values that
\* json does not know (a datetime) into their str().  The destination holds
\* exactly the document of the last completed save: a later save replaces the
\* earlier content, it neither appends to it nor merges with it.
C20_RoundTripJsonImage ==
    /\ (~store.direct_used /\ store.last_load.after # NoValue) =>
         /\ store.last_load.kind = "value"
         /\ store.last_load.value = JsonImage(store.last_load.after)
         /\ IsJsonNative(store.last_load.after)
              => store.last_load.value = store.last_load.after
    /\ (~store.direct_used /\ store.last_saved # NoValue) =>
         /\ store.dest = Holding(dumps(store.last_saved).text)
         /\ load_json(store.dest).value = JsonImage(store.last_saved)

\* A second save replaced the first one's content and the load returned the
\* data of the second
C20_Witness ==
    /\ ~store.direct_used
    /\ store.saves = 2
    /\ store.prior.exists
    /\ store.prior.text # dumps(OldPayload).text
    /\ store.prior # store.dest
    /\ store.last_saved = ListVal(<<StrVal("a"), IntVal("1")>>)
    /\ store.last_load.after = store.last_saved
    /\ store.last_load.value = store.last_saved

(***************************************************************************)
(* data_ingestion/utils/storage.py: backup_file.  A backup is named        *)
(* <stem>_<timestamp><suffix>; a name is the sequence of the characters of *)
(* <stem>_<timestamp>, the suffix being the same for every file here.      *)
(***************************************************************************)
MaxClock == 3            \* seconds the clock can advance
MaxKeep == 2             \* largest keep_count passed

\* The files backed up: data.json and data_x.json of the same directory
Stems == {<<"d">>, <<"d", "_", "x">>}
KeepCounts == (0 - 1)..MaxKeep

\* ord() of the characters of a backup name
Ord(ch) ==
    CASE ch = "_" -> 95
      [] ch = "d" -> 100
      [] ch = "x" -> 120
      [] OTHER -> 48 + (CHOOSE d \in 0..9 : Digit(d) = ch)

\* datetime.utcnow().strftime("%Y%m%d_%H%M%S") at the second `clock`
strftime(clock) == <<Digit(clock)>>

\* backup_dir / f"{file_path.stem}_{timestamp}{file_path.suffix}"
BackupPath(stem, clock) == stem \o <<"_">> \o strftime(clock)

\* backup_dir.glob(f"{file_path.stem}_*{file_path.suffix}") matches `name`
GlobMatches(stem, name) ==
    /\ Len(name) >= Len(stem) + 1
    /\ Take(name, Len(stem) + 1) = stem \o <<"_">>

\* Path comparison: the order of the names as strings
RECURSIVE PathLess(_, _)
PathLess(a, b) ==
    IF b = <<>> THEN FALSE
    ELSE IF a = <<>> THEN TRUE
    ELSE IF Head(a) = Head(b) THEN PathLess(Tail(a), Tail(b))
    ELSE Ord(Head(a)) < Ord(Head(b))

RECURSIVE sorted(_)
sorted(paths) ==
    IF paths = {} THEN <<>>
    ELSE LET first == CHOOSE x \in paths : \A y \in paths \ {x} : PathLess(x, y)
         IN  <<first>> \o sorted(paths \ {first})

\* The end of the slice seq[:stop] of a sequence of n elements
SliceEnd(n, stop) == IF stop < 0 THEN Max(n + stop, 0) ELSE Min(stop, n)

\* backups[:-keep_count], lines 200-201
OldBackups(backups, keep_count) ==
    Take(backups, SliceEnd(Len(backups), 0 - keep_count))

NoCall == [stem |-> <<>>, keep_count |-> 0, ret |-> <<>>, raised |-> FALSE,
           unlink_failed |-> FALSE, before |-> {}]

BackupStart(existing) ==
    [pc |-> "idle",
     files |-> existing,        \* the stems whose file exists
     dir |-> {},                \* the names in .backups
     clock |-> 0,
     last |-> NoCall]           \* history: the last backup_file call

bkrest == <<filevars, qmvars, run, stage, store, gen, report, audit, bulk, streaming>>

\* backup_file(file_path, keep_count), lines 181-207
Backup ==
    /\ bk.pc = "idle"
    /\ \E stem \in Stems, keep_count \in KeepCounts :
         LET call == [NoCall EXCEPT !.stem = stem, !.keep_count = keep_count,
                                    !.before = bk.dir]
             backup_path == BackupPath(stem, bk.clock)
             copied == bk.dir \cup {backup_path}
             backups == sorted({n \in copied : GlobMatches(stem, n)})
             old == SeqRange(OldBackups(backups, keep_count))
         IN  IF stem \notin bk.files
             THEN bk' = [bk EXCEPT !.last = call]
             ELSE \/ bk' = [bk EXCEPT !.last = [call EXCEPT !.raised = TRUE]]
                  \/ bk' = [bk EXCEPT !.dir = copied \ old,
                                      !.last = [call EXCEPT !.ret = backup_path]]
                  \/ /\ old # {}
                     /\ bk' = [bk EXCEPT !.dir = copied,
                                         !.last = [call EXCEPT !.ret = backup_path,
                                                               !.unlink_failed = TRUE]]
    /\ UNCHANGED bkrest

\* A second passes
Tick ==
    /\ bk.pc = "idle"
    /\ bk.clock < MaxClock
    /\ bk' = [bk EXCEPT !.clock = @ + 1]
    /\ UNCHANGED bkrest

NextBackup == Backup \/ Tick

InitBackup ==
    /\ InitNoQueue
    /\ stage = NoStage /\ store = NoStore
    /\ gen = Unused /\ report = Unused /\ audit = Unused
    /\ bulk = Unused /\ streaming = Unused
    /\ \E existing \in SUBSET Stems : bk = BackupStart(existing)

SpecBackup == InitBackup /\ [][NextBackup]_vars

\* The backups of the file `stem` in the directory
BackupsOf(stem) == {n \in bk.dir : \E c \in 0..MaxClock : n = BackupPath(stem, c)}

\* C21: once a backup_file call has returned a path and every unlink it made
\* succeeded, at most keep_count backups of the file exist, the backup just
\* made is among them, and every backup of the file that was pruned is older
\* than every backup of it that was kept.
C21_KeepsNewestKeepCount ==
    (bk.last.ret # <<>> /\ ~bk.last.unlink_failed) =>
      LET mine == BackupsOf(bk.last.stem)
          had == {n \in bk.last.before \cup {bk.last.ret} :
                    \E c \in 0..MaxClock : n = BackupPath(bk.last.stem, c)}
      IN  /\ Cardinality(mine) <= Max(bk.last.keep_count, 0)
          /\ bk.last.keep_count >= 1 => bk.last.ret \in mine
          /\ \A gone \in had \ mine, kept \in mine : PathLess(gone, kept)

(***************************************************************************)
(* generate_locations.py run as the subprocess of process_batch_with_retry *)
(* (python -m ...generate_locations --batch "T1,T2"): generate_real_data   *)
(* and the files it writes.  A file is absent, partial (opened for writing *)
(* and not yet completely written) or complete.                            *)
(***************************************************************************)
\* The tickers generate_locations.py has queries for (line 40)
TICKER_QUERIES == {<<TickerNames[1]>>}

\* keys = [t for t in batch_tickers if t in TICKER_QUERIES], line 349
ValidKeys(batch_tickers) == SelectSeq(batch_tickers, LAMBDA t : t \in TICKER_QUERIES)

GenStart(prior) ==
    [pc |-> "idle",
     keys |-> <<>>, i |-> 0,
     manifest |-> {},               \* the list `manifest` of the process
     brand_files |-> [t \in Tickers |-> IF t \in prior THEN "complete" ELSE "absent"],
     manifest_file |-> [state |-> IF prior = {} THEN "absent" ELSE "complete",
                        tickers |-> prior],
     returncode |-> 0,
     cause |-> "none",              \* why the process ended
     invocations |-> 0,             \* history: subprocesses started
     saved |-> {},                  \* history: tickers the last process that exited 0
                                    \* wrote an artifact and a manifest entry for
     fatal_at |-> 0,                \* history: the invocation that met an invalid payload
     killed |-> FALSE]              \* history: a process was killed at the timeout

genrest == <<filevars, qmvars, stage, store, bk, report, audit, bulk, streaming>>

\* sys.exit(0 if success else 1), or an uncaught exception
Exited(code, cause) == [gen EXCEPT !.pc = "exited", !.returncode = code, !.cause = cause]

\* The process goes on with the next ticker of keys, or with the manifest
NextKey(g) ==
    IF g.i < Len(g.keys) THEN [g EXCEPT !.pc = "ticker", !.i = @ + 1]
    ELSE [g EXCEPT !.pc = "manifest"]

\* run_command, line 66, and generate_real_data, lines 348-355: the subprocess
\* is started with the batch
GenerateStart(r) ==
    /\ run[r].pc = "invoke"
    /\ gen.pc = "idle"
    /\ LET keys == ValidKeys(run[r].batch_tickers)
           started == [gen EXCEPT !.invocations = @ + 1, !.manifest = {},
                                  !.keys = keys, !.i = 0, !.saved = {}]
       IN  gen' = IF keys = <<>>
                  THEN [started EXCEPT !.pc = "exited", !.returncode = 1,
                                       !.cause = "no_valid_tickers"]
                  ELSE NextKey(started)
    /\ UNCHANGED <<run, genrest>>

\* generate_real_data, lines 360-452: the elements of one ticker are fetched
\* and turned into locations; an element without the shape the loop reads
\* (no 'id', a lat that is not a number) raises out of the process
GenerateFetch ==
    /\ gen.pc = "ticker"
    /\ \/ gen' = [gen EXCEPT !.pc = "open"]
       \/ gen' = NextKey(gen)
       \/ gen' = [Exited(1, "invalid_payload") EXCEPT !.fatal_at = gen.invocations]
    /\ UNCHANGED <<run, genrest>>

\* lines 454-457: with open(filepath, "w") as f
GenerateOpen ==
    /\ gen.pc = "open"
    /\ gen' = [gen EXCEPT !.pc = "dump",
                          !.brand_files[gen.keys[gen.i]] = "partial"]
    /\ UNCHANGED <<run, genrest>>

\* lines 457-466: json.dump(all_ticker_locs, f) and manifest.append, or the
\* write raises
GenerateDump ==
    /\ gen.pc = "dump"
    /\ \/ gen' = NextKey([gen EXCEPT !.brand_files[gen.keys[gen.i]] = "complete",
                                     !.manifest = @ \cup {gen.keys[gen.i]}])
       \/ gen' = Exited(1, "write_failed")
    /\ UNCHANGED <<run, genrest>>

\* lines 473-489: the existing manifest is read (an unreadable one counts as
\* empty), merged, and manifest.json is opened for writing
GenerateManifestOpen ==
    /\ gen.pc = "manifest"
    /\ LET existing == IF gen.manifest_file.state = "complete"
                       THEN gen.manifest_file.tickers ELSE {}
       IN  gen' = [gen EXCEPT !.pc = "manifest_dump",
                              !.manifest_file = [state |-> "partial",
                                                 tickers |-> existing \cup gen.manifest]]
    /\ UNCHANGED <<run, genrest>>

\* lines 489-503: json.dump(final_manifest, f), return True, sys.exit(0)
GenerateManifestDump ==
    /\ gen.pc = "manifest_dump"
    /\ \/ gen' = [Exited(0, "done") EXCEPT !.manifest_file.state = "complete",
                                           !.saved = gen.manifest]
       \/ gen' = Exited(1, "write_failed")
    /\ UNCHANGED <<run, genrest>>

\* run_command, lines 66-69: the timeout expires, the subprocess is killed
\* where it is and run_command returns failure
GenerateTimeout(r) ==
    /\ run[r].pc = "invoke"
    /\ gen.pc \notin {"idle", "exited"}
    /\ gen' = [gen EXCEPT !.pc = "idle", !.cause = "timeout", !.killed = TRUE]
    /\ run' = [run EXCEPT ![r] = [pc |-> "retry", invokes |-> run[r].invokes + 1,
                                  failed |-> run[r].failed + 1] @@ run[r]]
    /\ UNCHANGED genrest

\* run_command, lines 66-67, and process_batch_with_retry, lines 148-150 and
\* 174-177: success is returncode == 0 and nothing else of the result is used
\* to choose the branch
GenerateReturn(r) ==
    /\ run[r].pc = "invoke"
    /\ gen.pc = "exited"
    /\ gen' = [gen EXCEPT !.pc = "idle"]
    /\ run' = [run EXCEPT ![r] =
                 IF run_command(IF gen.returncode = 0 THEN "exit_zero" ELSE "exit_nonzero")
                 THEN [pc |-> "metadata", invokes |-> run[r].invokes + 1,
                       inv_ok |-> TRUE] @@ run[r]
                 ELSE [pc |-> "retry", invokes |-> run[r].invokes + 1,
                       failed |-> run[r].failed + 1] @@ run[r]]
    /\ UNCHANGED genrest

NextJob ==
    \/ \E r \in Runners : MainStart(r)
    \/ \E r \in Runners : SelectBatch(r)
    \/ \E r \in Runners : LoopExit(r)
    \/ \E r \in Runners : GenerateStart(r)
    \/ GenerateFetch
    \/ GenerateOpen
    \/ GenerateDump
    \/ GenerateManifestOpen
    \/ GenerateManifestDump
    \/ \E r \in Runners : GenerateTimeout(r)
    \/ \E r \in Runners : GenerateReturn(r)
    \/ \E r \in Runners : BuildMetadata(r)
    \/ \E r \in Runners : Retry(r)
    \/ \E r \in Runners : Finish(r)

\* One run of the job with the module's attempt limit; the data directory is
\* empty or holds what an earlier run wrote for the first ticker
InitJob ==
    /\ InitQueue(ConcQueueSrcs)
    /\ InitLedger(RunnerLedgerSrcs)
    /\ qm_last = NoResult /\ qm_called = {} /\ qm_marked = {}
    /\ stage = NoStage /\ store = NoStore
    /\ bk = Unused /\ report = Unused /\ audit = Unused
    /\ bulk = Unused /\ streaming = Unused
    /\ \E prior \in {{}, TICKER_QUERIES} : gen = GenStart(prior)
    /\ \E b \in InitialSizes, f \in Floors :
         run = [r \in {1} |-> RunnerStart(b, MAX_RETRY_ATTEMPTS, f)]

SpecJob == InitJob /\ [][NextJob]_vars

\* C22: after the ingestion stage has failed on a structurally invalid
\* payload the runner makes no further attempt: no other subprocess is
\* started and the run ends in FAILURE.
C22_InvalidPayloadIsFatal ==
    \A r \in Runners :
      gen.fatal_at > 0 =>
        /\ gen.invocations = gen.fatal_at
        /\ run[r].invokes <= gen.fatal_at
        /\ run[r].pc = "done" => run[r].exit_code = 1

\* C23: no file of the ingestion stage is left partially written once its
\* process has ended, also when it was killed at the timeout.
C23_NoPartialArtifactLeft ==
    gen.pc = "idle" =>
      /\ \A t \in Tickers : gen.brand_files[t] # "partial"
      /\ gen.manifest_file.state # "partial"

\* C29: every ticker the run wrote a ledger line for was saved by the stage
\* in that run, artifact and manifest entry.
C29_LedgerOnlyIngestedTickers ==
    \A r \in Runners :
      run[r].pc = "done" => SeqRange(run[r].written) \subseteq gen.saved

(***************************************************************************)
(* data-aggregation/pipelines/common/data_quality.py: DataQualityReport    *)
(***************************************************************************)
MaxChecks == 3           \* add_check calls on one report

CheckNames == {"completeness", "duplicates"}
CheckDetails == {"None", "detail"}

\* sum(1 for c in self.checks if c['passed'])
RECURSIVE PassedCount(_)
PassedCount(checks) ==
    IF checks = <<>> THEN 0
    ELSE (IF Head(checks).passed THEN 1 ELSE 0) + PassedCount(Tail(checks))

\* Mutant of get_report: the report passes as soon as one check passed
get_report_any_passed(self) ==
    LET passed_checks == PassedCount(self.checks)
        total_checks == Len(self.checks)
    IN  [name |-> self.name,
         checks |-> [total |-> total_checks, passed |-> passed_checks,
                     failed |-> total_checks - passed_checks,
                     details |-> self.checks],
         summary |-> self.summary,
         status |-> IF passed_checks > 0 \/ total_checks = 0 THEN "PASS" ELSE "FAIL"]

\* get_report(), lines 54-75
get_report(self) ==
    LET passed_checks == PassedCount(self.checks)
        total_checks == Len(self.checks)
    IN  [name |-> self.name,
         checks |-> [total |-> total_checks, passed |-> passed_checks,
                     failed |-> total_checks - passed_checks,
                     details |-> self.checks],
         summary |-> self.summary,
         status |-> IF passed_checks = total_checks THEN "PASS" ELSE "FAIL"]

NoReport == [status |-> "none"]

\* DataQualityReport(name), lines 17-27
ReportStart(name) ==
    [pc |-> "live", name |-> name, checks |-> <<>>, summary |-> {},
     calls |-> 0,               \* history: add_check calls
     calls_passed |-> 0,        \* history: add_check calls with passed = True
     last |-> NoReport,         \* history: what the last get_report returned
     last_calls |-> 0,          \* history: add_check calls before that get_report
     last_passed |-> 0]

reportrest == <<filevars, qmvars, run, stage, store, bk, gen, audit, bulk, streaming>>

\* add_check(check_name, passed, details), lines 29-42
add_check ==
    /\ report.pc = "live"
    /\ report.calls < MaxChecks
    /\ \E check_name \in CheckNames, passed \in BOOLEAN, details \in CheckDetails :
         report' = [report EXCEPT
                      !.checks = Append(@, [name |-> check_name, passed |-> passed,
                                            details |-> details]),
                      !.calls = @ + 1,
                      !.calls_passed = @ + (IF passed THEN 1 ELSE 0)]
    /\ UNCHANGED reportrest

\* add_summary(key, value), lines 44-52
add_summary ==
    /\ report.pc = "live"
    /\ \E key \in {"total_locations"} :
         report' = [report EXCEPT !.summary = @ \cup {key}]
    /\ UNCHANGED reportrest

\* A caller evaluates get_report()
GetReport ==
    /\ report.pc = "live"
    /\ report' = [report EXCEPT !.last = get_report(report),
                                !.last_calls = report.calls,
                                !.last_passed = report.calls_passed]
    /\ UNCHANGED reportrest

NextReport == add_check \/ add_summary \/ GetReport

InitReport ==
    /\ InitNoQueue
    /\ stage = NoStage /\ store = NoStore
    /\ bk = Unused /\ gen = Unused /\ audit = Unused
    /\ bulk = Unused /\ streaming = Unused
    /\ report = ReportStart("Test")

SpecReport == InitReport /\ [][NextReport]_vars

\* C24: whatever add_check calls were made, a report returned by get_report
\* has status PASS when every one of the calls made before it had passed =
\* True, and FAIL when one of them had not; checks.total is the number of
\* those calls, checks.passed the number of them that passed, and
\* checks.total = checks.passed + checks.failed.
C24_RollUp ==
    report.last # NoReport =>
      /\ report.last.status \in {"PASS", "FAIL"}
      /\ report.last.status = "PASS" <=> report.last_passed = report.last_calls
      /\ report.last.status = "FAIL" <=> report.last_passed < report.last_calls
      /\ report.last.checks.total = report.last_calls
      /\ report.last.checks.passed = report.last_passed
      /\ report.last.checks.total
           = report.last.checks.passed + report.last.checks.failed

\* Three checks were added, one of them failed, and the report says FAIL
C24_Witness ==
    /\ report.last # NoReport
    /\ report.last_calls = 3
    /\ report.last_passed = 2
    /\ report.last.status = "FAIL"
    /\ report.last.checks.failed = 1

(***************************************************************************)
(* FranchiseMap/scripts/run_data_aggregation.py: the quality audit of the  *)
(* brand files of the manifest (stages 1 and 5 of the pipeline).  A        *)
(* location record is the set of the fields it carries.                    *)
(***************************************************************************)
MaxBrands == 2           \* entries of the manifest
MaxFileRecords == 2      \* locations of a brand file

\* validate_location, line 142 (lat, lng, n and ticker go with id here)
RequiredLocationFields == {"id"}
\* required_demographic_fields, lines 478-481 (one field stands for the six)
required_demographic_fields == {"medianIncome"}

\* A location with every field, one without the demographic fields, and one
\* with the demographic fields that lacks its id
Locations ==
    {RequiredLocationFields \cup required_demographic_fields,
     RequiredLocationFields,
     required_demographic_fields}

MissingFile == [exists |-> FALSE, locations |-> <<>>]
BrandFiles ==
    {MissingFile}
    \cup {[exists |-> TRUE, locations |-> ls] : ls \in SeqsUpTo(Locations, MaxFileRecords)}

\* DataValidator.validate_location, lines 140-143
validate_location(location) == RequiredLocationFields \subseteq location

\* DataValidator.validate_brand_file, lines 146-186: (is_valid, location_count)
validate_brand_file(file) ==
    IF file.locations = <<>> THEN [is_valid |-> FALSE, location_count |-> 0]
    ELSE IF \E i \in 1..Len(file.locations) : ~validate_location(file.locations[i])
    THEN [is_valid |-> FALSE, location_count |-> Len(file.locations)]
    ELSE [is_valid |-> TRUE, location_count |-> Len(file.locations)]

\* verify_brand_data, lines 340-364: total_locations over the manifest
RECURSIVE TotalLocations(_)
TotalLocations(manifest) ==
    IF manifest = <<>> THEN 0
    ELSE LET file == Head(manifest)
             v == validate_brand_file(file)
         IN  (IF file.exists /\ v.is_valid THEN v.location_count ELSE 0)
             + TotalLocations(Tail(manifest))

\* calculate_quality_metrics, lines 505-517: the locations of one file that
\* carry every field of the set
RECURSIVE WithFields(_, _)
WithFields(locations, fields) ==
    IF locations = <<>> THEN 0
    ELSE (IF fields \subseteq Head(locations) THEN 1 ELSE 0)
         + WithFields(Tail(locations), fields)

\* calculate_quality_metrics, lines 487-517: with_demographics over the manifest
RECURSIVE WithDemographics(_)
WithDemographics(manifest) ==
    IF manifest = <<>> THEN 0
    ELSE (IF Head(manifest).exists
          THEN WithFields(Head(manifest).locations, required_demographic_fields)
          ELSE 0)
         + WithDemographics(Tail(manifest))

\* A percentage kept as the fraction num / den
Fraction(num, den) == [num |-> num, den |-> den]

\* QualityMetrics(), lines 93-107
QualityMetrics == [total_locations |-> 0, with_demographics |-> 0,
                   demographic_coverage |-> Fraction(0, 1)]

AuditStart(manifest) ==
    [pc |-> "verify", manifest |-> manifest, quality_metrics |-> QualityMetrics,
     status |-> "none"]

auditrest == <<filevars, qmvars, run, stage, store, bk, gen, report, bulk, streaming>>

\* verify_brand_data, lines 329-397
verify_brand_data ==
    /\ audit.pc = "verify"
    /\ audit' = [audit EXCEPT
                   !.pc = "metrics",
                   !.quality_metrics.total_locations = TotalLocations(audit.manifest),
                   !.status = IF \E i \in 1..Len(audit.manifest) :
                                   \/ ~audit.manifest[i].exists
                                   \/ ~validate_brand_file(audit.manifest[i]).is_valid
                              THEN "error" ELSE "completed"]
    /\ UNCHANGED auditrest

\* calculate_quality_metrics, lines 471-560, called by run() whatever the
\* status of the verification (lines 653-655 and 695)
calculate_quality_metrics ==
    /\ audit.pc = "metrics"
    /\ LET with == audit.quality_metrics.with_demographics
                   + WithDemographics(audit.manifest)
           total == audit.quality_metrics.total_locations
       IN  audit' = [audit EXCEPT
                       !.pc = "done",
                       !.quality_metrics.with_demographics = with,
                       !.quality_metrics.demographic_coverage =
                           IF total > 0 THEN Fraction(with * 100, total) ELSE @]
    /\ UNCHANGED auditrest

NextAudit == verify_brand_data \/ calculate_quality_metrics

InitAudit ==
    /\ InitNoQueue
    /\ stage = NoStage /\ store = NoStore
    /\ bk = Unused /\ gen = Unused /\ report = Unused
    /\ bulk = Unused /\ streaming = Unused
    /\ \E manifest \in SeqsUpTo(BrandFiles, MaxBrands) : audit = AuditStart(manifest)

SpecAudit == InitAudit /\ [][NextAudit]_vars

\* The records the metrics pass has read, and those of them that carry every
\* field of the set
RECURSIVE AuditedRecords(_)
AuditedRecords(manifest) ==
    IF manifest = <<>> THEN <<>>
    ELSE (IF Head(manifest).exists THEN Head(manifest).locations ELSE <<>>)
         \o AuditedRecords(Tail(manifest))

Carrying(records, fields) ==
    Cardinality({i \in 1..Len(records) : fields \subseteq records[i]})

\* C25: after the audit, demographic_coverage is 100 times the number of
\* audited records that carry every field of the set, divided by the number
\* of audited records, whichever brand files are valid or invalid (and 0 when
\* no record was audited).
C25_CoverageOfAuditedRecords ==
    audit.pc = "done" =>
      LET records == AuditedRecords(audit.manifest)
          coverage == audit.quality_metrics.demographic_coverage
      IN  IF records = <<>> THEN coverage.num = 0
          ELSE coverage.num * Len(records)
                 = 100 * Carrying(records, required_demographic_fields) * coverage.den

(***************************************************************************)
(* data_ingestion/base.py: BulkIngestionScript.fetch                       *)
(***************************************************************************)
MaxChunk == 3            \* largest chunk_size
MaxSource == 6           \* largest number of records of the source

\* The slice seq[offset : offset + limit] of a Python list
Slice(seq, offset, limit) ==
    [i \in 1..Max(Min(limit, Len(seq) - offset), 0) |-> seq[offset + i]]

\* What a subclass's fetch_chunk(offset, limit) can return: the records of
\* the source from offset on, at most limit of them; a source that pages
\* irregularly returns fewer than it has
fetch_chunk(source, honest, offset, limit) ==
    LET page == Slice(source, offset, limit)
    IN  IF honest THEN {page} ELSE {Take(page, n) : n \in 0..Len(page)}

\* BulkIngestionScript(name, version, chunk_size) and the entry of fetch(),
\* lines 212-237
BulkStart(chunk_size, source, honest) ==
    [pc |-> "fetching", chunk_size |-> chunk_size, source |-> source,
     honest |-> honest,
     all_records |-> <<>>, offset |-> 0, total_records |-> 0,
     result |-> <<>>,
     calls |-> <<>>]            \* history: the fetch_chunk calls and their chunks

bulkrest == <<filevars, qmvars, run, stage, store, bk, gen, report, audit, streaming>>

\* Mutant of FetchChunk: only an empty chunk ends the loop
FetchChunkUntilEmpty ==
    /\ bulk.pc = "fetching"
    /\ \E chunk \in fetch_chunk(bulk.source, bulk.honest, bulk.offset, bulk.chunk_size) :
         LET called == [bulk EXCEPT !.calls = Append(@, [offset |-> bulk.offset,
                                                          limit |-> bulk.chunk_size,
                                                          chunk |-> chunk])]
         IN  bulk' = IF chunk = <<>>
                     THEN [called EXCEPT !.pc = "break"]
                     ELSE [called EXCEPT !.all_records = @ \o chunk,
                                         !.offset = @ + Len(chunk)]
    /\ UNCHANGED bulkrest

\* fetch(), lines 239-249: one iteration of the while loop
FetchChunk ==
    /\ bulk.pc = "fetching"
    /\ \E chunk \in fetch_chunk(bulk.source, bulk.honest, bulk.offset, bulk.chunk_size) :
         LET called == [bulk EXCEPT !.calls = Append(@, [offset |-> bulk.offset,
                                                          limit |-> bulk.chunk_size,
                                                          chunk |-> chunk])]
         IN  bulk' = IF chunk = <<>>
                     THEN [called EXCEPT !.pc = "break"]
                     ELSE [called EXCEPT
                             !.all_records = @ \o chunk,
                             !.offset = @ + Len(chunk),
                             !.pc = IF Len(chunk) < bulk.chunk_size
                                    THEN "break" ELSE "fetching"]
    /\ UNCHANGED bulkrest

\* fetch(), lines 251-253
FetchReturn ==
    /\ bulk.pc = "break"
    /\ bulk' = [bulk EXCEPT !.pc = "returned",
                            !.total_records = Len(bulk.all_records),
                            !.result = bulk.all_records]
    /\ UNCHANGED bulkrest

NextBulk == FetchChunk \/ FetchReturn

InitBulk ==
    /\ InitNoQueue
    /\ stage = NoStage /\ store = NoStore
    /\ bk = Unused /\ gen = Unused /\ report = Unused
    /\ audit = Unused /\ streaming = Unused
    /\ \E chunk_size \in 1..MaxChunk, n \in 0..MaxSource, honest \in BOOLEAN :
         bulk = BulkStart(chunk_size, [i \in 1..n |-> i], honest)

SpecBulk == InitBulk /\ [][NextBulk]_vars

\* The concatenation of the chunks of the first k calls
RECURSIVE ChunksOf(_, _)
ChunksOf(calls, k) ==
    IF k = 0 THEN <<>> ELSE ChunksOf(calls, k - 1) \o calls[k].chunk

\* C26: every fetch_chunk call has limit = chunk_size and offset = the number
\* of records of the chunks before it; no call follows a chunk of fewer than
\* limit records, and fetch returns only after such a chunk; it returns the
\* chunks concatenated in order.  For a source of N records whose fetch_chunk
\* returns source[offset : offset + limit], fetch makes at most
\* floor(N / limit) + 1 calls and returns, after exactly that many, all N
\* records.
C26_FetchUntilShortChunk ==
    LET calls == bulk.calls
        n == Len(bulk.source)
    IN  /\ \A k \in 1..Len(calls) :
             /\ calls[k].limit = bulk.chunk_size
             /\ calls[k].offset = Len(ChunksOf(calls, k - 1))
             /\ k < Len(calls) => Len(calls[k].chunk) >= calls[k].limit
        /\ bulk.pc = "fetching" =>
             \A k \in 1..Len(calls) : Len(calls[k].chunk) >= calls[k].limit
        /\ Len(calls) <= n \div bulk.chunk_size + 1
        /\ bulk.pc = "returned" =>
             /\ calls # <<>>
             /\ Len(calls[Len(calls)].chunk) < bulk.chunk_size
             /\ bulk.result = ChunksOf(calls, Len(calls))
             /\ bulk.total_records = Len(bulk.result)
             /\ bulk.honest =>
                  /\ bulk.result = bulk.source
                  /\ Len(calls) = n \div bulk.chunk_size + 1

\* Five records in chunks of 2: the calls (0, 2), (2, 2), (4, 2) with the last
\* chunk short, and all five records returned
C26_Witness ==
    /\ bulk.pc = "returned"
    /\ bulk.honest
    /\ bulk.chunk_size = 2
    /\ bulk.result = <<1, 2, 3, 4, 5>>
    /\ [k \in 1..Len(bulk.calls) |-> bulk.calls[k].offset] = <<0, 2, 4>>
    /\ bulk.calls[3].chunk = <<5>>

(***************************************************************************)
(* data_ingestion/base.py: a StreamingIngestionScript run through          *)
(* DataIngestionScript.run                                                 *)
(***************************************************************************)
MaxStream == 4           \* records get_stream() can yield

StreamRecords == {"r1", "r2"}

\* StreamingIngestionScript(name, version, update_interval) at the entry of
\* run(); stream is what get_stream() has still to yield
StreamStart(stream) ==
    [pc |-> "fetch", stream |-> stream,
     records |-> <<>>,          \* the list `records` of fetch()
     raw_data |-> <<>>, transformed_data |-> <<>>,
     record_count |-> 0, error_count |-> 0,
     result |-> "running"]

streamrest == <<filevars, qmvars, run, stage, store, bk, gen, report, audit, bulk>>

\* run(), lines 101-106: the except clause
StreamAbort(self) ==
    [self EXCEPT !.pc = "done", !.error_count = @ + 1, !.result = "False"]

\* StreamingIngestionScript.fetch, lines 338-343: the next record is pulled
\* from get_stream() and appended; should_stop() is the subclass's answer
StreamPull ==
    /\ streaming.pc = "fetch"
    /\ streaming.stream # <<>>
    /\ \E should_stop \in BOOLEAN :
         LET pulled == [streaming EXCEPT !.records = Append(@, Head(streaming.stream)),
                                         !.stream = Tail(@),
                                         !.record_count = @ + 1]
         IN  streaming' = IF should_stop
                          THEN [pulled EXCEPT !.pc = "validate",
                                              !.raw_data = pulled.records]
                          ELSE pulled
    /\ UNCHANGED streamrest

\* fetch, lines 338 and 345-353, and run(), lines 74-77: the generator is
\* exhausted and the list is returned, or the generator raises
StreamEnd ==
    /\ streaming.pc = "fetch"
    /\ \/ /\ streaming.stream = <<>>
          /\ streaming' = [streaming EXCEPT !.pc = "validate",
                                            !.raw_data = streaming.records]
       \/ streaming' = StreamAbort(streaming)
    /\ UNCHANGED streamrest

\* run(), lines 79-82
StreamValidate ==
    /\ streaming.pc = "validate"
    /\ \/ streaming' = [streaming EXCEPT !.pc = "transform"]
       \/ streaming' = StreamAbort(streaming)
    /\ UNCHANGED streamrest

\* run(), lines 84-89: transform is called once with the whole list
StreamTransform ==
    /\ streaming.pc = "transform"
    /\ \/ streaming' = [streaming EXCEPT !.pc = "save",
                                         !.transformed_data = streaming.raw_data]
       \/ streaming' = StreamAbort(streaming)
    /\ UNCHANGED streamrest

\* run(), lines 91-99
StreamSave ==
    /\ streaming.pc = "save"
    /\ \/ streaming' = [streaming EXCEPT !.pc = "done", !.result = "True"]
       \/ streaming' = StreamAbort(streaming)
    /\ UNCHANGED streamrest

NextStream == StreamPull \/ StreamEnd \/ StreamValidate \/ StreamTransform \/ StreamSave

InitStream ==
    /\ InitNoQueue
    /\ stage = NoStage /\ store = NoStore
    /\ bk = Unused /\ gen = Unused /\ report = Unused
    /\ audit = Unused /\ bulk = Unused
    /\ \E stream \in SeqsUpTo(StreamRecords, MaxStream) : streaming = StreamStart(stream)

SpecStream == InitStream /\ [][NextStream]_vars

\* C27: at most one record pulled from the stream has not yet been through
\* transform.
C27_OneRecordInFlight ==
    Len(streaming.records) - Len(streaming.transformed_data) <= 1

(***************************************************************************)
(* data_ingestion/base.py: run() called again on the same object           *)
(***************************************************************************)
MaxRuns == 2             \* run() calls on one object

\* run(), lines 60-70: a further call; run() resets none of the counters that
\* __init__ set (lines 52-58)
RunAgain ==
    /\ stage.pc = "returned"
    /\ stage.runs < MaxRuns
    /\ stage' = [stage EXCEPT !.pc = "fetch", !.result = "running",
                              !.artifact_before = stage.artifact,
                              !.calls = <<>>, !.returned = {}, !.raised = NoError,
                              !.runs = @ + 1]
    /\ UNCHANGED stagerest

NextStageRuns == NextStage \/ RunAgain

SpecStageRuns == InitStage /\ [][NextStageRuns]_vars

\* C28: once run() has returned, the success field of get_summary() is True
\* exactly when run() returned True.
C28_SummarySuccessIsRunResult ==
    stage.pc = "returned" =>
      (get_summary(stage).success <=> stage.result = "True")

\* C30: under repeated single-writer runs, the step that ends a run in
\* SUCCESS (exit code 0) with a non-empty batch leaves fewer tickers remaining
\* (queued and not in the ledger) than there were before it.
C30_SuccessfulRunDecreasesRemaining ==
    [][\A r \in Runners :
         (/\ run[r].pc = "finish"
          /\ run[r].success
          /\ run[r].ret_tickers # <<>>
          /\ run'[r].pc = "done"
          /\ run'[r].exit_code = 0)
           => Len(Remaining(queueFile', ledgerFile'))
                < Len(Remaining(queueFile, ledgerFile))]_vars

=============================================================================
